---- MODULE Spec2Model ----
(***************************************************************************)
(* Price-Tracker-Bot: the price-extraction engine of src/lib/tracker.js.   *)
(*                                                                         *)
(* JavaScript strings are TLA+ strings (Len, SubSeq and \o act on them     *)
(* character by character).  JavaScript numbers are exact decimals         *)
(* [k |-> "num", m, e] of value m / 10^e, kept normalised (e = 0 or m not  *)
(* divisible by 10) so that equal values are equal records; null and NaN   *)
(* are the records Null and NaN.  Strings hold ASCII only: the characters  *)
(* outside it are written ^ for the rupee sign, ~ for the euro sign, % for *)
(* the pound sign and | for the non-breaking space.                        *)
(***************************************************************************)
EXTENDS Integers, Sequences, FiniteSets, TLC

VARIABLES
    mode,      \* which harness runs: "norm", "pick", "jsonld", "price", "session"
               \* or "worker"
    input,     \* the argument(s) of the call in progress
    pc,        \* position of the call in progress
    stage,     \* getPrice: the stage that produced the return value (0: none)
    result,    \* the value returned (Null until the call returns)
    err,       \* the exception raised inside the call ("" when none)
    escaped,   \* TRUE when an exception left the call
    calls,     \* "session": the invocations made so far, one record each
    heap,      \* "session": the objects the last invocation allocated
    db,        \* "worker": the products collection, one document per product
    runs,      \* "worker": the price-check runs started so far (at most
               \* input.cap)
    sent,      \* "worker": the calls of sendMessage made so far
    now,       \* "worker": the time, in minutes
    settings,  \* "worker": intervalMinutes of the ChatSettings document of a chat
    timers     \* "worker": perChatIntervals and the interval timers that are set

\* the time, the chat settings and the timers
clock == <<now, settings, timers>>

\* the variables of the bot worker and the check endpoint
worker == <<db, runs, sent, clock>>

\* no price check runs
NoWorker ==
    /\ db = <<>> /\ runs = <<>> /\ sent = {}
    /\ now = 0 /\ settings = <<>> /\ timers = <<>>

\* the variables of the harnesses of several invocations
outside == <<calls, heap, worker>>

vars == <<mode, input, pc, stage, result, err, escaped, outside>>

\* one call runs: there are no other invocations
NoOutside == calls = <<>> /\ heap = <<>> /\ NoWorker

----------------------------------------------------------------------------
(* Characters and strings *)

Ch(s, i) == IF 1 <= i /\ i <= Len(s) THEN SubSeq(s, i, i) ELSE ""

Digit == {"0", "1", "2", "3", "4", "5", "6", "7", "8", "9"}

\* \s of a JavaScript regular expression (the characters the model uses)
Space == {" ", "\n", "\t", "\r", "|"}

\* the symbols ₹ $ € £
CurrencySymbol == {"^", "$", "~", "%"}

IsDigit(c) == c \in Digit
IsSpace(c) == c \in Space

DigitVal(c) ==
    CASE c = "0" -> 0 [] c = "1" -> 1 [] c = "2" -> 2 [] c = "3" -> 3
      [] c = "4" -> 4 [] c = "5" -> 5 [] c = "6" -> 6 [] c = "7" -> 7
      [] c = "8" -> 8 [] c = "9" -> 9

\* the i flag of a regular expression: letters compare in lower case
LowerCh(c) ==
    CASE c = "A" -> "a" [] c = "B" -> "b" [] c = "C" -> "c" [] c = "D" -> "d"
      [] c = "E" -> "e" [] c = "F" -> "f" [] c = "G" -> "g" [] c = "H" -> "h"
      [] c = "I" -> "i" [] c = "J" -> "j" [] c = "K" -> "k" [] c = "L" -> "l"
      [] c = "M" -> "m" [] c = "N" -> "n" [] c = "O" -> "o" [] c = "P" -> "p"
      [] c = "Q" -> "q" [] c = "R" -> "r" [] c = "S" -> "s" [] c = "T" -> "t"
      [] c = "U" -> "u" [] c = "V" -> "v" [] c = "W" -> "w" [] c = "X" -> "x"
      [] c = "Y" -> "y" [] c = "Z" -> "z" [] OTHER -> c

\* pat (given in lower case) occurs in s at position i, ignoring case
AtCI(s, i, pat) ==
    /\ i >= 1
    /\ i + Len(pat) - 1 <= Len(s)
    /\ \A k \in 1..Len(pat) : LowerCh(Ch(s, i + k - 1)) = Ch(pat, k)

\* pat occurs in s at position i, case-sensitively
At(s, i, pat) ==
    /\ i >= 1
    /\ i + Len(pat) - 1 <= Len(s)
    /\ SubSeq(s, i, i + Len(pat) - 1) = pat

\* String.prototype.includes
Includes(s, pat) == \E i \in 1..Len(s) : At(s, i, pat)

\* the end (exclusive) of the longest run of characters of class cls from i
RECURSIVE RunEnd(_, _, _)
RunEnd(s, i, cls) ==
    IF i <= Len(s) /\ Ch(s, i) \in cls THEN RunEnd(s, i + 1, cls) ELSE i

\* s without the characters of class cls
RECURSIVE RemoveAll(_, _)
RemoveAll(s, cls) ==
    IF s = "" THEN ""
    ELSE IF Ch(s, 1) \in cls THEN RemoveAll(Tail(s), cls)
    ELSE Ch(s, 1) \o RemoveAll(Tail(s), cls)

\* the least element of a non-empty set of positions
MinOf(S) == CHOOSE x \in S : \A y \in S : x <= y

\* String.prototype.trim
Trim(s) ==
    LET cut(a, b) == IF a > b THEN "" ELSE SubSeq(s, a, b)
    IN  cut(RunEnd(s, 1, Space),
            CHOOSE j \in 0..Len(s) :
                /\ \A k \in (j + 1)..Len(s) : IsSpace(Ch(s, k))
                /\ (j = 0 \/ ~IsSpace(Ch(s, j))))

----------------------------------------------------------------------------
(* Numbers *)

Null == [k |-> "null", m |-> 0, e |-> 0]
NaN  == [k |-> "nan",  m |-> 0, e |-> 0]
Inf  == [k |-> "inf",  m |-> 0, e |-> 0]

RECURSIVE Pow10(_)
Pow10(n) == IF n = 0 THEN 1 ELSE 10 * Pow10(n - 1)

\* the decimal m / 10^e, normalised
RECURSIVE Num(_, _)
Num(m, e) ==
    IF e > 0 /\ m % 10 = 0 THEN Num(m \div 10, e - 1)
    ELSE [k |-> "num", m |-> m, e |-> e]

IsNum(x) == x.k = "num"

\* a < b, a <= b on numbers
Less(a, b) == a.m * Pow10(b.e) < b.m * Pow10(a.e)
Leq(a, b)  == a.m * Pow10(b.e) <= b.m * Pow10(a.e)

\* Math.min(...xs) of a non-empty sequence of numbers
MathMin(xs) ==
    LET i == CHOOSE i \in 1..Len(xs) : \A j \in 1..Len(xs) : Leq(xs[i], xs[j])
    IN  xs[i]

RECURSIVE DigitsToInt(_)
DigitsToInt(s) ==
    IF s = "" THEN 0
    ELSE 10 * DigitsToInt(SubSeq(s, 1, Len(s) - 1)) + DigitVal(Ch(s, Len(s)))

\* parseFloat: leading white space, an optional sign, digits, an optional
\* fraction; the longest such prefix is parsed and the rest ignored.  (No
\* text of the model has an exponent or the word Infinity after the sign.)
ParseFloat(s) ==
    LET value(neg, ip, fp) ==
            IF ip = "" /\ fp = "" THEN NaN
            ELSE Num((IF neg THEN -1 ELSE 1) * DigitsToInt(ip \o fp), Len(fp))
        split(a, b, c, d) ==
            value(Ch(s, a) = "-", SubSeq(s, b, c - 1),
                  IF d > c THEN SubSeq(s, c + 1, d - 1) ELSE "")
        fraction(a, b, c) ==
            split(a, b, c, IF Ch(s, c) = "." THEN RunEnd(s, c + 1, Digit) ELSE c)
        digits(a, b) == fraction(a, b, RunEnd(s, b, Digit))
        sign(a) == digits(a, IF Ch(s, a) \in {"-", "+"} THEN a + 1 ELSE a)
    IN  sign(RunEnd(s, 1, Space))

----------------------------------------------------------------------------
(* parseNumberFlexible *)

\* length of the match of /[₹$€£]|INR|USD|EUR|GBP|Rs\.?/i at position i (0: none)
CurrencyLenAt(s, i) ==
    IF Ch(s, i) \in CurrencySymbol THEN 1
    ELSE IF \E code \in {"inr", "usd", "eur", "gbp"} : AtCI(s, i, code) THEN 3
    ELSE IF AtCI(s, i, "rs") THEN (IF Ch(s, i + 2) = "." THEN 3 ELSE 2)
    ELSE 0

\* s.replace(/[₹$€£]|INR|USD|EUR|GBP|Rs\.?/gi, "")
RECURSIVE StripCurrency(_, _)
StripCurrency(s, i) ==
    LET skip(n) == IF n > 0 THEN StripCurrency(s, i + n)
                   ELSE Ch(s, i) \o StripCurrency(s, i + 1)
    IN  IF i > Len(s) THEN "" ELSE skip(CurrencyLenAt(s, i))

\* positions of the dots of s
DotsOf(s) == {i \in 1..Len(s) : Ch(s, i) = "."}

\* the dot that a mutant keeps: the first
KeepFirstDot(s) ==
    LET keep(dots, first) ==
            IF Cardinality(dots) > 1
            THEN SubSeq(s, 1, first) \o RemoveAll(SubSeq(s, first + 1, Len(s)), {"."})
            ELSE s
        join(dots) == keep(dots, CHOOSE i \in dots : \A j \in dots : i <= j)
    IN  join(DotsOf(s))

\* const parts = s.split('.'); if (parts.length > 2) s = all parts but the
\* last joined by '' + '.' + the last part
JoinDots(s) ==
    LET keep(dots, last) ==
            IF Cardinality(dots) > 1
            THEN RemoveAll(SubSeq(s, 1, last - 1), {"."}) \o SubSeq(s, last, Len(s))
            ELSE s
        join(dots) == keep(dots, CHOOSE i \in dots : \A j \in dots : j <= i)
    IN  join(DotsOf(s))

\* Number.isFinite(num) ? num : null
FiniteOrNull(x) == IF IsNum(x) THEN x ELSE Null

parseNumberFlexible(str) ==
    IF str = "" THEN Null
    ELSE LET s1 == Trim(str)
             s2 == RemoveAll(StripCurrency(s1, 1), Space)
             s3 == RemoveAll(s2, {","})
             s4 == JoinDots(s3)
         IN  FiniteOrNull(ParseFloat(s4))

----------------------------------------------------------------------------
(* extractAllCurrencyPrices *)

\* the alternatives of (?:INR|Rs\.?|₹|USD|\$|EUR|€|GBP|£) at position i, as the
\* set of positions reached after the marker; Rs\.? is greedy, so the longer
\* end is tried first
MarkerEnds(s, i) ==
    IF Ch(s, i) \in CurrencySymbol THEN {i + 1}
    ELSE IF \E code \in {"inr", "usd", "eur", "gbp"} : AtCI(s, i, code) THEN {i + 3}
    ELSE IF AtCI(s, i, "rs") THEN (IF Ch(s, i + 2) = "." THEN {i + 3, i + 2} ELSE {i + 2})
    ELSE {}

NumChar == Digit \cup {".", ","}

\* the match of marker \s* ([\d.,]+(?:\.[\d]{1,2})?) starting at i:
\* <<start of group 1, end of the match (exclusive)>>, or <<0, 0>>.
\* After the marker, \s* takes the whole run of white space (no character
\* of [\d.,] is white space, so giving some back never helps) and [\d.,]+
\* the whole run of number characters, which leaves nothing for the
\* optional group.
CurrencyMatchAt(s, i) ==
    LET number(g, e) == e > g
        ok(e)      == number(RunEnd(s, e, Space), RunEnd(s, RunEnd(s, e, Space), NumChar))
        group(g)   == <<g, RunEnd(s, g, NumChar)>>
        match(ends) ==
            IF ends = {} THEN <<0, 0>>
            ELSE group(RunEnd(s, CHOOSE x \in ends : \A y \in ends : y <= x, Space))
    IN  match({e \in MarkerEnds(s, i) : ok(e)})

\* while ((m = re.exec(text)) !== null) { ... out.push(num) ... }
RECURSIVE ScanCurrency(_, _)
ScanCurrency(text, i) ==
    LET some(num)    == IF num # Null THEN <<num>> ELSE <<>>
        push(m)      == some(parseNumberFlexible(SubSeq(text, m[1], m[2] - 1)))
                            \o ScanCurrency(text, m[2])
        scan(starts) == IF starts = {} THEN <<>>
                        ELSE push(CurrencyMatchAt(text, MinOf(starts)))
    IN  scan({j \in i..Len(text) : CurrencyMatchAt(text, j)[1] > 0})

extractAllCurrencyPrices(text) ==
    IF text = "" THEN <<>> ELSE ScanCurrency(text, 1)

----------------------------------------------------------------------------
(* extractPriceFromText *)

\* s with every character of class cls replaced by a space
RECURSIVE ToSpace(_, _)
ToSpace(s, cls) ==
    IF s = "" THEN ""
    ELSE (IF Ch(s, 1) \in cls THEN " " ELSE Ch(s, 1)) \o ToSpace(Tail(s), cls)

\* the characters of s at the positions of the set keep, in order
RECURSIVE KeepAt(_, _, _)
KeepAt(s, i, keep) ==
    IF i > Len(s) THEN ""
    ELSE (IF i \in keep THEN Ch(s, i) ELSE "") \o KeepAt(s, i + 1, keep)

\* .replace(/[, ](?=\d{3}(\D|$))/g, ""): a comma or space directly before
\* exactly three digits
RemoveThousands(s) ==
    LET sep(i) == /\ Ch(s, i) \in {",", " "}
                  /\ \A d \in 1..3 : IsDigit(Ch(s, i + d))
                  /\ ~IsDigit(Ch(s, i + 4))
    IN  KeepAt(s, 1, {i \in 1..Len(s) : ~sep(i)})

\* the match of (USD|EUR|GBP|INR|Rs\.?|₹|\$|€|£)\s*(\d+(?:[\.,]\d{2})?|...) at
\* position i: <<start of group 2, its end (exclusive)>>, or <<0, 0>>.  The
\* first alternative of group 2 matches wherever the second could, so the
\* second is never taken.
TextCurrencyMatchAt(s, i) ==
    LET ok(e)       == IsDigit(Ch(s, RunEnd(s, e, Space)))
        cents(d)    == Ch(s, d) \in {".", ","} /\ IsDigit(Ch(s, d + 1)) /\ IsDigit(Ch(s, d + 2))
        group(g, d) == <<g, IF cents(d) THEN d + 3 ELSE d>>
        from(g)     == group(g, RunEnd(s, g, Digit))
        match(ends) ==
            IF ends = {} THEN <<0, 0>>
            ELSE from(RunEnd(s, CHOOSE x \in ends : \A y \in ends : y <= x, Space))
    IN  match({e \in MarkerEnds(s, i) : ok(e)})

\* raw.replace(/(\d+)\.(\d{3})(?!\d)/, "$1$2"): the first dot between a digit
\* and exactly three digits is dropped
DropThousandsDot(raw) ==
    LET drop(hit) == IF hit = {} THEN raw
                     ELSE KeepAt(raw, 1, (1..Len(raw)) \ {MinOf(hit)})
    IN  drop({j \in 1..Len(raw) :
                 /\ Ch(raw, j) = "." /\ IsDigit(Ch(raw, j - 1))
                 /\ \A d \in 1..3 : IsDigit(Ch(raw, j + d))
                 /\ ~IsDigit(Ch(raw, j + 4))})

\* s.replace(/(\d+),(\d{2})$/, "$1.$2")
DecimalComma(s) ==
    LET n == Len(s)
    IN  IF /\ n >= 4 /\ Ch(s, n - 2) = "," /\ IsDigit(Ch(s, n - 3))
           /\ IsDigit(Ch(s, n - 1)) /\ IsDigit(Ch(s, n))
        THEN SubSeq(s, 1, n - 3) \o "." \o SubSeq(s, n - 1, n)
        ELSE s

\* the end (exclusive) of the match of \d+(?:[\.,]\d+)? at a digit at i
PlainNumberEnd(s, i) ==
    LET fraction(d) == IF Ch(s, d) \in {".", ","} /\ IsDigit(Ch(s, d + 1))
                       THEN RunEnd(s, d + 1, Digit) ELSE d
    IN  fraction(RunEnd(s, i, Digit))

\* cleaned.match(/(\d+(?:[\.,]\d+)?)/g) with commas removed and parsed
RECURSIVE PlainNumbers(_, _)
PlainNumbers(s, i) ==
    LET number(j, e) == <<ParseFloat(RemoveAll(SubSeq(s, j, e - 1), {","}))>>
                            \o PlainNumbers(s, e)
        at(j)        == number(j, PlainNumberEnd(s, j))
        scan(starts) == IF starts = {} THEN <<>> ELSE at(MinOf(starts))
    IN  scan({j \in i..Len(s) : IsDigit(Ch(s, j))})

\* numbers.sort((a, b) => b - a); sorted.find((n) => n >= 1) ?? sorted[0]
LargestPlausible(numbers) ==
    LET top(S) == CHOOSE i \in S : \A j \in S : Leq(numbers[j], numbers[i])
        pick(plausible) == IF plausible # {} THEN numbers[top(plausible)]
                           ELSE numbers[top(1..Len(numbers))]
    IN  pick({i \in 1..Len(numbers) : Leq(Num(1, 0), numbers[i])})

extractPriceFromText(text) ==
    LET fallback(numbers) == IF numbers = <<>> THEN Null ELSE LargestPlausible(numbers)
        \* const num = parseFloat(raw); if (!isNaN(num)) return num
        parsed(found, num, cleaned) ==
            IF found /\ num # NaN THEN num ELSE fallback(PlainNumbers(cleaned, 1))
        matched(found, m, cleaned) ==
            parsed(found,
                   IF found
                   THEN ParseFloat(DecimalComma(DropThousandsDot(
                            RemoveAll(SubSeq(cleaned, m[1], m[2] - 1), {","} \cup Space))))
                   ELSE NaN,
                   cleaned)
        search(starts, cleaned) ==
            matched(starts # {},
                    IF starts # {} THEN TextCurrencyMatchAt(cleaned, MinOf(starts))
                    ELSE <<0, 0>>,
                    cleaned)
        clean(cleaned) ==
            search({i \in 1..Len(cleaned) : TextCurrencyMatchAt(cleaned, i)[1] > 0}, cleaned)
    IN  IF text = "" THEN Null
        ELSE clean(Trim(RemoveThousands(ToSpace(text, {"\n", "\r", "|"}))))

----------------------------------------------------------------------------
(* pickBestPrice *)

INRFloor == 50
OtherFloor == Num(5, 1)   \* 0.5

\* a mutant: the floor never depends on the currency hint
MinByCurrencyNoHint(currencyHint) == OtherFloor

\* (currencyHint || '').toUpperCase().includes('INR') || currencyHint === '₹' ? 50 : 0.5
MinByCurrency(currencyHint) ==
    IF (\E i \in 1..Len(currencyHint) : AtCI(currencyHint, i, "inr")) \/ currencyHint = "^"
    THEN Num(INRFloor, 0) ELSE OtherFloor

\* Array.from(new Set(xs)): first occurrences, in order
RECURSIVE Uniq(_)
Uniq(xs) ==
    IF xs = <<>> THEN <<>>
    ELSE LET init == SubSeq(xs, 1, Len(xs) - 1)
             last == xs[Len(xs)]
         IN  IF \E i \in 1..Len(init) : init[i] = last
             THEN Uniq(init) ELSE Append(Uniq(init), last)

\* counts.get(n) after: for (const n of filtered) counts.set(n, (counts.get(n) || 0) + 1)
CountIn(xs, n) == Cardinality({i \in 1..Len(xs) : xs[i] = n})

pickBestPrice(candidates, currencyHint) ==
    LET positive(n) == IsNum(n) /\ n.m > 0
        \* the comparator (counts.get(b) - counts.get(a)) || a - b puts x first
        before(filtered, x, y) ==
            \/ CountIn(filtered, x) > CountIn(filtered, y)
            \/ /\ CountIn(filtered, x) = CountIn(filtered, y)
               /\ Leq(x, y)
        choose(uniq, filtered) ==
            IF uniq = <<>> THEN Null
            ELSE IF filtered = <<>> THEN MathMin(uniq)
            ELSE filtered[CHOOSE i \in 1..Len(filtered) :
                              \A j \in 1..Len(filtered) :
                                  before(filtered, filtered[i], filtered[j])]
        floor(uniq, minByCurrency) ==
            choose(uniq, SelectSeq(uniq, LAMBDA n : Leq(minByCurrency, n)))
    IN  floor(Uniq(SelectSeq(candidates, positive)), MinByCurrency(currencyHint))

----------------------------------------------------------------------------
(* Inputs and the calls of the pure functions *)

RECURSIVE Concat(_)
Concat(ts) == IF ts = <<>> THEN "" ELSE Head(ts) \o Concat(Tail(ts))

\* all sequences over S of length at most n
RECURSIVE SeqsUpTo(_, _)
SeqsUpTo(S, n) ==
    IF n = 0 THEN {<<>>}
    ELSE SeqsUpTo(S, n - 1) \cup {Append(q, x) : q \in SeqsUpTo(S, n - 1), x \in S}

MaxNormTokens == 4
MaxPool == 3

\* the pieces a text handed to the normalizer is made of
CurrencyToken == {"^", "Rs."}
NormToken == CurrencyToken \cup {" ", "1", "0", ",", "."}

\* the texts the specification and the callers name
NormExample ==
    { <<"^", "1", ",", "299">>, <<"99", ".", "99">>, <<"1", ".", "234", ".", "567">>,
      <<"abc">>, <<"1", ".", "299">>, <<"1", ".", "299", ",", "00">>,
      <<"-500">>, <<"12", ".", "50", " only">>, <<"INR", " ", "4", ",", "999">> }

NormInput == SeqsUpTo(NormToken, MaxNormTokens) \cup NormExample

InitNorm ==
    /\ mode = "norm"
    /\ input \in NormInput
    /\ pc = "call"
    /\ stage = 0
    /\ result = Null
    /\ err = ""
    /\ escaped = FALSE
    /\ NoOutside

\* parseNumberFlexible(input)
NormCall ==
    /\ mode = "norm"
    /\ pc = "call"
    /\ result' = parseNumberFlexible(Concat(input))
    /\ pc' = "done"
    /\ UNCHANGED <<outside, mode, input, stage, err, escaped>>

NextNorm == NormCall

SpecNorm == InitNorm /\ [][NextNorm]_vars

----------------------------------------------------------------------------
(* The numeric normalizer, checked under SpecNorm *)

\* the tokens left after dropping currency tokens, white space and commas
KeptTokens(ts) ==
    LET keep(t) == t \notin CurrencyToken /\ t \notin Space /\ t # ","
    IN  SelectSeq(ts, keep)

\* what the described algorithm yields for a text made of NormToken pieces:
\* the digits before the last dot are the integer part, those after it the
\* fraction, every other dot is a grouping separator
DescribedValue(ts) ==
    LET kept   == KeptTokens(ts)
        dots   == {i \in 1..Len(kept) : kept[i] = "."}
        last   == IF dots = {} THEN Len(kept) + 1
                  ELSE CHOOSE i \in dots : \A j \in dots : j <= i
        isDig(t) == t # "."
        ip     == Concat(SelectSeq(SubSeq(kept, 1, last - 1), isDig))
        fp     == Concat(SelectSeq(SubSeq(kept, last + 1, Len(kept)), isDig))
    IN  IF ip = "" /\ fp = "" THEN Null
        ELSE Num(DigitsToInt(ip \o fp), Len(fp))

C9_ThousandsGrouping ==
    (mode = "norm" /\ pc = "done"
        /\ input \in {<<"1", ".", "299">>, <<"1", ".", "299", ",", "00">>})
    => result = Num(1299, 0)

----------------------------------------------------------------------------

\* the values a candidate pool may hold
PoolValue ==
    { Num(0, 0), Num(0 - 5, 0), NaN, Inf, Num(3, 1), Num(5, 1), Num(2, 0),
      Num(4999, 2), Num(50, 0), Num(999, 0), Num(1200, 0), Num(1500, 0) }

HintValue == {"INR", "", "^", "inr", "USD"}

InitPick ==
    /\ mode = "pick"
    /\ input \in [candidates : SeqsUpTo(PoolValue, MaxPool), currencyHint : HintValue]
    /\ pc = "call"
    /\ stage = 0
    /\ result = Null
    /\ err = ""
    /\ escaped = FALSE
    /\ NoOutside

\* pickBestPrice(candidates, currencyHint)
PickCall ==
    /\ mode = "pick"
    /\ pc = "call"
    /\ result' = pickBestPrice(input.candidates, input.currencyHint)
    /\ pc' = "done"
    /\ UNCHANGED <<outside, mode, input, stage, err, escaped>>

NextPick == PickCall

SpecPick == InitPick /\ [][NextPick]_vars

----------------------------------------------------------------------------
(* Candidate resolution, checked under SpecPick *)

\* the hints that stand for Indian Rupees
InrHint == {"INR", "inr", "^"}

FloorOf(hint) == IF hint \in InrHint THEN Num(50, 0) ELSE Num(5, 1)

\* the positive finite values of a pool
PositiveOf(cands) == {cands[i] : i \in {j \in 1..Len(cands) : IsNum(cands[j]) /\ cands[j].m > 0}}

\* the candidates that survive the filters
SurvivorsOf(cands, hint) == {v \in PositiveOf(cands) : Leq(FloorOf(hint), v)}

\* C4: pickBestPrice returns, among the surviving candidates, the value that
\* occurs most often in the pool, and the smallest of those that occur
\* equally often.
C4_MostFrequentThenSmallest ==
    (mode = "pick" /\ pc = "done"
        /\ SurvivorsOf(input.candidates, input.currencyHint) # {})
    => LET surv == SurvivorsOf(input.candidates, input.currencyHint)
           n(v) == CountIn(input.candidates, v)
       IN  /\ result \in surv
           /\ \A v \in surv : n(v) <= n(result)
           /\ \A v \in surv : n(v) = n(result) => Leq(result, v)

\* C5: with an INR hint the result is never below 50 when the pool holds a
\* positive finite value of at least 50, with another hint never below 0.5
\* when the pool holds a value of at least 0.5; when no positive candidate
\* reaches the floor the result is the least positive finite candidate; the
\* result is null only when the pool has no positive finite value.
C5_CurrencyFloor ==
    (mode = "pick" /\ pc = "done") =>
        LET pos   == PositiveOf(input.candidates)
            floor == FloorOf(input.currencyHint)
        IN  /\ (\E v \in pos : Leq(floor, v)) => (IsNum(result) /\ Leq(floor, result))
            /\ (pos # {} /\ \A v \in pos : Less(v, floor)) =>
                   (result \in pos /\ \A v \in pos : Leq(result, v))
            /\ (result = Null) <=> (pos = {})
            /\ result # Null => result \in pos

C5_Witness ==
    /\ mode = "pick" /\ pc = "done"
    /\ input.currencyHint = "INR"
    /\ input.candidates = <<Num(2, 0), Num(1500, 0)>>
    /\ result = Num(1500, 0)

----------------------------------------------------------------------------
(* tryJSONLD *)

\* a JSON value read from a node: absent, a string or a number (s is its text)
Undef == [t |-> "undef", s |-> ""]
Str(s) == [t |-> "str", s |-> s]
Number(s) == [t |-> "num", s |-> s]

\* the truthiness of a JSON value: if (node.price), if (!str)
Truthy(v) ==
    \/ v.t = "str" /\ v.s # ""
    \/ v.t = "num" /\ ParseFloat(v.s).m # 0

\* parseNumberFlexible on a JSON value: if (!str) return null; String(str)
parseNumberFlexibleOf(v) ==
    IF Truthy(v) THEN parseNumberFlexible(v.s) ELSE Null

\* /Offer/i.test(type), /Product/i.test(type); a missing type is ""
TypeHas(type, word) == \E i \in 1..Len(type) : AtCI(type, i, word)

PriceKey == <<"price", "lowPrice", "highPrice">>

\* if (node.price) pushIf(node.price) ... : the numbers an Offer node adds
OfferFound(node) ==
    LET some(n)  == IF n # Null THEN <<n>> ELSE <<>>
        one(key) == IF Truthy(node[key]) THEN some(parseNumberFlexibleOf(node[key]))
                    ELSE <<>>
    IN  one("price") \o one("lowPrice") \o one("highPrice")

\* ['price', 'lowPrice', 'highPrice'].forEach((k) => { if (off[k] != null) ... })
EntryFound(off) ==
    LET some(n)  == IF n # Null THEN <<n>> ELSE <<>>
        one(key) == IF off[key] # Undef THEN some(parseNumberFlexibleOf(off[key]))
                    ELSE <<>>
    IN  one("price") \o one("lowPrice") \o one("highPrice")

RECURSIVE EntriesFound(_)
EntriesFound(offers) ==
    IF offers = <<>> THEN <<>>
    ELSE EntryFound(Head(offers)) \o EntriesFound(Tail(offers))

\* what one node pushes to found
NodeFound(node) ==
    (IF TypeHas(node.type, "offer") THEN OfferFound(node) ELSE <<>>)
        \o (IF TypeHas(node.type, "product") THEN EntriesFound(node.offers) ELSE <<>>)

RECURSIVE NodesFound(_)
NodesFound(nodes) ==
    IF nodes = <<>> THEN <<>>
    ELSE NodeFound(Head(nodes)) \o NodesFound(Tail(nodes))

\* the values collected from all script blocks together
RECURSIVE BlocksFoundAll(_)
BlocksFoundAll(scripts) ==
    IF scripts = <<>> THEN <<>>
    ELSE (IF Head(scripts).raw = "" \/ ~Head(scripts).json.valid THEN <<>>
          ELSE NodesFound(Head(scripts).json.nodes))
             \o BlocksFoundAll(Tail(scripts))

\* a mutant: the failure of JSON.parse ends the scan of the blocks
RECURSIVE ScanBlocksUntilInvalid(_)
ScanBlocksUntilInvalid(scripts) ==
    LET min(found, rest) == IF found # <<>> THEN MathMin(found)
                            ELSE ScanBlocksUntilInvalid(rest)
        block(s, rest) ==
            IF s.raw = "" THEN ScanBlocksUntilInvalid(rest)
            ELSE IF ~s.json.valid THEN Null
            ELSE min(NodesFound(s.json.nodes), rest)
    IN  IF scripts = <<>> THEN Null ELSE block(Head(scripts), Tail(scripts))

\* for (const s of scripts) { ...; if (found.length) return Math.min(...prices) }
\* json.valid is whether JSON.parse accepts the text, json.nodes the value
\* after flatten(data).filter(Boolean)
RECURSIVE ScanBlocks(_)
ScanBlocks(scripts) ==
    LET min(found, rest) == IF found # <<>> THEN MathMin(found) ELSE ScanBlocks(rest)
        block(s, rest) ==
            IF s.raw = "" THEN ScanBlocks(rest)
            ELSE IF ~s.json.valid THEN ScanBlocks(rest)
            ELSE min(NodesFound(s.json.nodes), rest)
    IN  IF scripts = <<>> THEN Null ELSE block(Head(scripts), Tail(scripts))

\* $('script[type="application/ld+json"]').toArray()
LdScripts(elems) == LET ld(e) == e.kind = "ldjson" IN SelectSeq(elems, ld)

tryJSONLD(elems) == ScanBlocks(LdScripts(elems))

----------------------------------------------------------------------------
(* tryEmbeddedJSON *)

Letter ==
    {"a", "b", "c", "d", "e", "f", "g", "h", "i", "j", "k", "l", "m", "n", "o", "p",
     "q", "r", "s", "t", "u", "v", "w", "x", "y", "z",
     "A", "B", "C", "D", "E", "F", "G", "H", "I", "J", "K", "L", "M", "N", "O", "P",
     "Q", "R", "S", "T", "U", "V", "W", "X", "Y", "Z"}

\* \w and \b of a regular expression
WordCh == Letter \cup Digit \cup {"_"}
Boundary(s, i) == (Ch(s, i - 1) \in WordCh) # (Ch(s, i) \in WordCh)

\* \b(key)\b at position i for one of the keys (lower case): the position after
\* the key, or 0
KeyEnd(s, i, keys) ==
    LET end(hit) == IF hit = {} THEN 0 ELSE i + Len(CHOOSE k \in hit : TRUE)
    IN  end({k \in keys : AtCI(s, i, k) /\ Boundary(s, i) /\ Boundary(s, i + Len(k))})

\* \s*:\s* from position i: the position after it, or 0
ColonEnd(s, i) ==
    LET colon(c) == IF Ch(s, c) = ":" THEN RunEnd(s, c + 1, Space) ELSE 0
    IN  colon(RunEnd(s, i, Space))

\* "?(\d{3,}(?:\.\d{1,2})?)"? from position i: <<start of the group, its end
\* (exclusive), end of the match>>, or <<0, 0, 0>>
BareValueAt(s, i) ==
    LET quote(g, d, f) ==
            IF d - g >= 3 THEN <<g, f, IF Ch(s, f) = "\"" THEN f + 1 ELSE f>>
            ELSE <<0, 0, 0>>
        fraction(g, d) ==
            quote(g, d, IF Ch(s, d) = "." /\ IsDigit(Ch(s, d + 1))
                        THEN (IF IsDigit(Ch(s, d + 2)) THEN d + 3 ELSE d + 2)
                        ELSE d)
        digits(g) == fraction(g, RunEnd(s, g, Digit))
    IN  digits(IF Ch(s, i) = "\"" THEN i + 1 ELSE i)

\* the match of \b(key)\b\s*:\s*"?(\d{3,}(?:\.\d{1,2})?)"? at position i
KeyValueAt(s, i, keys) ==
    LET value(c) == IF c = 0 THEN <<0, 0, 0>> ELSE BareValueAt(s, c)
        colon(k) == value(IF k = 0 THEN 0 ELSE ColonEnd(s, k))
    IN  colon(KeyEnd(s, i, keys))

\* every match of the pattern over the text, normalised (re2 and re3)
RECURSIVE KeyValues(_, _, _)
KeyValues(s, i, keys) ==
    LET some(x)      == IF x # Null THEN <<x>> ELSE <<>>
        push(m)      == some(parseNumberFlexible(SubSeq(s, m[1], m[2] - 1)))
                            \o KeyValues(s, m[3], keys)
        scan(starts) == IF starts = {} THEN <<>>
                        ELSE push(KeyValueAt(s, MinOf(starts), keys))
    IN  scan({j \in i..Len(s) : KeyValueAt(s, j, keys)[1] > 0})

\* (amount|value)\s*:\s*(\d+(?:\.\d+)?)\b at position j: <<start of the number,
\* its end (exclusive)>>, or <<0, 0>>; the number gives back its fraction
\* when no word boundary follows it
AmountAt(s, j) ==
    LET number(c, d, f) ==
            IF c = 0 \/ d = c THEN <<0, 0>>
            ELSE IF Boundary(s, f) THEN <<c, f>>
            ELSE IF f > d THEN <<c, d>>
            ELSE <<0, 0>>
        fraction(c, d) ==
            number(c, d, IF Ch(s, d) = "." /\ IsDigit(Ch(s, d + 1))
                         THEN RunEnd(s, d + 1, Digit) ELSE d)
        digits(c) == fraction(c, RunEnd(s, c, Digit))
        colon(k)  == digits(IF k = 0 THEN 0 ELSE ColonEnd(s, k))
    IN  colon(IF AtCI(s, j, "amount") THEN j + 6
              ELSE IF AtCI(s, j, "value") THEN j + 5 ELSE 0)

\* the match of re1 at position i: \b(finalPrice|sellingPrice|
\* marketplaceSellerSellingPrice|price)\b\s*:\s*\{[^}]*?(amount|value)\s*:\s*
\* (\d+(?:\.\d+)?)\b, where [^}]*? stops at the first place that works
NestedAt(s, i) ==
    LET first(hit) == IF hit = {} THEN <<0, 0>> ELSE AmountAt(s, MinOf(hit))
        inside(c, close) == first({j \in (c + 1)..close : AmountAt(s, j)[1] > 0})
        body(c, braces) ==
            inside(c, IF braces = {} THEN Len(s) + 1 ELSE MinOf(braces))
        open(c) == IF c # 0 /\ Ch(s, c) = "{"
                   THEN body(c, {j \in (c + 1)..Len(s) : Ch(s, j) = "}"})
                   ELSE <<0, 0>>
        colon(k) == open(IF k = 0 THEN 0 ELSE ColonEnd(s, k))
    IN  colon(KeyEnd(s, i, {"finalprice", "sellingprice",
                            "marketplacesellersellingprice", "price"}))

\* every match of re1 over the text, normalised
RECURSIVE NestedValues(_, _)
NestedValues(s, i) ==
    LET some(x)      == IF x # Null THEN <<x>> ELSE <<>>
        push(m)      == some(parseNumberFlexible(SubSeq(s, m[1], m[2] - 1)))
                            \o NestedValues(s, m[2])
        scan(starts) == IF starts = {} THEN <<>> ELSE push(NestedAt(s, MinOf(starts)))
    IN  scan({j \in i..Len(s) : NestedAt(s, j)[1] > 0})

\* what one script text pushes to prices
ScriptPrices(txt) ==
    NestedValues(txt, 1) \o KeyValues(txt, 1, {"price"})
        \o KeyValues(txt, 1, {"amount", "value"})

\* the pool of the first script text that pushes a value, as tryJSONLD treats
\* its blocks
RECURSIVE FirstScriptPrices(_)
FirstScriptPrices(texts) ==
    LET first(found, rest) == IF found # <<>> THEN found ELSE FirstScriptPrices(rest)
    IN  IF texts = <<>> THEN <<>>
        ELSE first(ScriptPrices(Head(texts).raw), Tail(texts))

RECURSIVE AllScriptPrices(_)
AllScriptPrices(texts) ==
    IF texts = <<>> THEN <<>>
    ELSE ScriptPrices(Head(texts).raw) \o AllScriptPrices(Tail(texts))

\* $('script').toArray().map((s) => $(s).contents().text()).filter(Boolean)
ScriptTexts(elems) ==
    LET script(e) == e.kind \in {"script", "ldjson"} /\ e.raw # ""
    IN  SelectSeq(elems, script)

tryEmbeddedJSON(elems) ==
    LET min(prices) == IF prices # <<>> THEN MathMin(prices) ELSE Null
    IN  min(AllScriptPrices(ScriptTexts(elems)))

----------------------------------------------------------------------------
(* The label-guided scan *)

LabelNum == Space \cup Digit \cup {",", "."}

\* (?:Deal Price|Price|MRP) at position i: the position after it, or 0
LabelEnd(s, i) ==
    IF AtCI(s, i, "deal price") THEN i + 10
    ELSE IF AtCI(s, i, "price") THEN i + 5
    ELSE IF AtCI(s, i, "mrp") THEN i + 3
    ELSE 0

\* \s*[:\-]?\s*([₹$€£]?[\s\d,.]+) from position p: <<start of the group, its
\* end (exclusive)>>, or <<0, 0>>.  Each greedy piece takes as much as lets
\* the rest match: the first \s* first, then the colon or dash, then the
\* second \s*, then the symbol.
LabelValueAt(s, p) ==
    LET symOK(c)   == Ch(s, c) \in CurrencySymbol /\ Ch(s, c + 1) \in LabelNum
        runOK(c)   == symOK(c) \/ Ch(s, c) \in LabelNum
        wsOK(b)    == \E c \in b..RunEnd(s, b, Space) : runOK(c)
        colonOK(a) == Ch(s, a) \in {":", "-"} /\ wsOK(a + 1)
        aOK(a)     == colonOK(a) \/ wsOK(a)
        MaxOf(S)   == CHOOSE x \in S : \A y \in S : y <= x
        group(c)   == <<c, RunEnd(s, IF symOK(c) THEN c + 1 ELSE c, LabelNum)>>
        second(b)  == group(MaxOf({c \in b..RunEnd(s, b, Space) : runOK(c)}))
        first(a)   == second(IF colonOK(a) THEN a + 1 ELSE a)
        match(as)  == IF as = {} THEN <<0, 0>> ELSE first(MaxOf(as))
    IN  match({a \in p..RunEnd(s, p, Space) : aOK(a)})

\* allText.match(/(?:Deal Price|Price|MRP)\s*[:\-]?\s*([₹$€£]?[\s\d,.]+)/i):
\* group 1 of the leftmost match, or "" when there is no match (a match
\* never has an empty group)
LabelMatch(allText) ==
    LET valueAt(e) == IF e > 0 THEN LabelValueAt(allText, e) ELSE <<0, 0>>
        group(m)   == SubSeq(allText, m[1], m[2] - 1)
        match(hit) == IF hit = {} THEN ""
                      ELSE group(valueAt(LabelEnd(allText, MinOf(hit))))
    IN  match({i \in 1..Len(allText) : valueAt(LabelEnd(allText, i))[1] > 0})

\* if (labelMatch) { const n = parseNumberFlexible(labelMatch[1]); if (n != null) return n; }
LabelPrice(allText) ==
    LET parse(group) == IF group = "" THEN Null ELSE parseNumberFlexible(group)
    IN  parse(LabelMatch(allText))

----------------------------------------------------------------------------
(* Documents: the elements of the parsed page, in document order.  kind is  *)
(* "text" (a text node of the body), "elem" (an element of the body),      *)
(* "meta", "script" or "ldjson" (script blocks and meta elements are in    *)
(* the head).  sels are the selectors of the tables that match the         *)
(* element, content and amount its content and data-amount attributes, raw *)
(* its source text and text its text content (entities decoded).           *)

NoJson == [valid |-> FALSE, nodes |-> <<>>]

Elem(kind, sels, content, amount, raw, text, json) ==
    [kind |-> kind, sels |-> sels, content |-> content, amount |-> amount,
     raw |-> raw, text |-> text, json |-> json]

Node(type, price, lowPrice, highPrice, offers) ==
    [type |-> type, price |-> price, lowPrice |-> lowPrice,
     highPrice |-> highPrice, offers |-> offers]

Entry(price, lowPrice, highPrice) ==
    [price |-> price, lowPrice |-> lowPrice, highPrice |-> highPrice]

LdBlock(raw, valid, nodes) ==
    Elem("ldjson", {}, "", "", raw, "", [valid |-> valid, nodes |-> nodes])

L_500 ==
    LdBlock("{\"@type\":\"Offer\",\"priceCurrency\":\"INR\",\"price\":\"500\"}", TRUE,
            <<Node("Offer", Str("500"), Undef, Undef, <<>>)>>)
L_750 ==
    LdBlock("{\"@type\":\"Offer\",\"price\":750}", TRUE,
            <<Node("Offer", Number("750"), Undef, Undef, <<>>)>>)
L_Two ==
    LdBlock("[{\"@type\":\"Offer\",\"price\":\"750\"},{\"@type\":\"Offer\",\"price\":\"500\"}]", TRUE,
            <<Node("Offer", Str("750"), Undef, Undef, <<>>),
              Node("Offer", Str("500"), Undef, Undef, <<>>)>>)
L_Range ==
    LdBlock("{\"@graph\":[{\"@type\":\"AggregateOffer\",\"lowPrice\":999,\"highPrice\":1200}]}", TRUE,
            <<Node("AggregateOffer", Undef, Number("999"), Number("1200"), <<>>)>>)
L_Product ==
    LdBlock("{\"@type\":\"Product\",\"offers\":[{\"price\":\"1,299.00\"},{\"price\":0}]}", TRUE,
            <<Node("Product", Undef, Undef, Undef,
                   <<Entry(Str("1,299.00"), Undef, Undef), Entry(Number("0"), Undef, Undef)>>)>>)
L_Org ==
    LdBlock("{\"@type\":\"Organization\",\"name\":\"Shop\"}", TRUE,
            <<Node("Organization", Undef, Undef, Undef, <<>>)>>)
L_Zero ==
    LdBlock("{\"@type\":\"Offer\",\"price\":\"0\"}", TRUE,
            <<Node("Offer", Str("0"), Undef, Undef, <<>>)>>)
L_Bad ==
    LdBlock("{\"@type\":\"Offer\",\"price\":\"300\",}", FALSE, <<>>)

LdPalette == {L_500, L_750, L_Two, L_Range, L_Product, L_Org, L_Zero, L_Bad}

----------------------------------------------------------------------------
(* domainSpecificSelectors, extractFromSelectors, extractTitle *)

RECURSIVE Lower(_)
Lower(s) == IF s = "" THEN "" ELSE LowerCh(Ch(s, 1)) \o Lower(Tail(s))

GenericSelectors ==
    << "meta[itemprop='price']",
       "meta[property='product:price:amount']",
       "meta[property='og:price:amount']",
       "meta[name='twitter:data1']",
       "[itemprop='price']",
       ".price, .product-price, . Price, .productPrice",
       "span[class*='price'], div[class*='price']",
       "#price" >>

domainSpecificSelectors(hostname) ==
    LET group(h, key, sel) == IF Includes(h, key) THEN sel ELSE <<>>
        tables(h) ==
            group(h, "amazon", << "#corePrice_feature_div .a-price .a-offscreen",
                                  "#priceblock_ourprice", "#priceblock_dealprice",
                                  "#priceblock_saleprice", ".a-price .a-offscreen",
                                  "span.a-price-whole" >>)
            \o group(h, "flipkart", << "._30jeq3._16Jk6d", "._30jeq3", "._16Jk6d",
                                       "._25b18c ._30jeq3",
                                       "div[class*='price'] span[class*='_30jeq3']",
                                       "meta[itemprop='price']",
                                       "meta[property='og:price:amount']" >>)
            \o group(h, "myntra", <<".pdp-price .pdp-price_value", "span.pdp-price">>)
            \o group(h, "ajio", <<".prod-sp", ".price-now", ".product-price .price">>)
            \o group(h, "croma", <<"#pdp-product-price", ".pdpPrice", "[data-amount]">>)
            \o group(h, "reliancedigital", <<".pdp__price", "[itemprop='price']">>)
            \o group(h, "tatacliq", <<"[data-test='pdpSalePrice']", "[data-test='pdpMrpPrice']">>)
            \o group(h, "snapdeal", <<".payBlkBig", "[itemprop='price']">>)
            \o group(h, "meesho", <<"[class*='price']", "[itemprop='price']">>)
            \o GenericSelectors
    IN  tables(Lower(hostname))

\* a selector the CSS grammar rejects: a class selector "." without a name
\* (the third item of ".price, .product-price, . Price, .productPrice")
Malformed(sel) == \E i \in 1..Len(sel) : At(sel, i, ". ")

\* $(sel) raises on a selector it cannot parse when the selector engine is
\* strict; a lenient engine matches nothing with it
SelectorRaises(selectors, strict) ==
    strict /\ \E i \in 1..Len(selectors) : Malformed(selectors[i])

\* $(sel).first(): the position of the first element that sel matches, or 0
First(elems, sel) ==
    LET first(hit) == IF hit = {} \/ Malformed(sel) THEN 0 ELSE MinOf(hit)
    IN  first({i \in 1..Len(elems) : sel \in elems[i].sels})

\* el.attr("content") || el.attr("data-amount") || el.text()
TextOf(el) ==
    IF el.content # "" THEN el.content
    ELSE IF el.amount # "" THEN el.amount
    ELSE el.text

\* the loop of extractFromSelectors: what each selector pushes to candidates
RECURSIVE SelectorCandidates(_, _)
SelectorCandidates(elems, selectors) ==
    LET some(n)   == IF n # Null THEN <<n>> ELSE <<>>
        push(txt) == some(extractPriceFromText(txt)) \o some(parseNumberFlexible(txt))
        at(i)     == IF i = 0 THEN <<>> ELSE push(TextOf(elems[i]))
    IN  IF selectors = <<>> THEN <<>>
        ELSE at(First(elems, Head(selectors)))
                 \o SelectorCandidates(elems, Tail(selectors))

\* const twitter = $('meta[name="twitter:data1"]').attr('content');
\* if (twitter) candidates.push(...extractAllCurrencyPrices(twitter))
TwitterCandidates(elems) ==
    LET at(i) == IF i = 0 THEN <<>> ELSE extractAllCurrencyPrices(elems[i].content)
    IN  at(First(elems, "meta[name='twitter:data1']"))

extractFromSelectors(elems, selectors) ==
    SelectorCandidates(elems, selectors) \o TwitterCandidates(elems)

\* a title: a string or null
NoTitle == [t |-> "null", s |-> ""]

\* a mutant: the title element is asked before the Open Graph meta tag
extractTitleElementFirst(elems) ==
    LET pick(og, ti, h1) ==
            IF ti # 0 /\ elems[ti].text # "" THEN Str(Trim(elems[ti].text))
            ELSE IF og # 0 /\ elems[og].content # "" THEN Str(Trim(elems[og].content))
            ELSE IF h1 # 0 /\ elems[h1].text # "" THEN Str(Trim(elems[h1].text))
            ELSE NoTitle
    IN  pick(First(elems, "meta[property='og:title']"), First(elems, "title"),
             First(elems, "h1"))

extractTitle(elems) ==
    LET pick(og, ti, h1) ==
            IF og # 0 /\ elems[og].content # "" THEN Str(Trim(elems[og].content))
            ELSE IF ti # 0 /\ elems[ti].text # "" THEN Str(Trim(elems[ti].text))
            ELSE IF h1 # 0 /\ elems[h1].text # "" THEN Str(Trim(elems[h1].text))
            ELSE NoTitle
    IN  pick(First(elems, "meta[property='og:title']"), First(elems, "title"),
             First(elems, "h1"))

----------------------------------------------------------------------------
(* The fetched page *)

\* the source of one element, as it stands in the HTML text
Render(e) ==
    CASE e.kind = "text"   -> e.raw
      [] e.kind = "elem"   -> "<b " \o e.amount \o ">" \o e.raw \o "</b>"
      [] e.kind = "meta"   -> "<m " \o e.content \o ">"
      [] e.kind = "title"  -> "<t>" \o e.raw \o "</t>"
      [] e.kind = "script" -> "<s>" \o e.raw \o "</s>"
      [] e.kind = "ldjson" -> "<s>" \o e.raw \o "</s>"

\* res.data: the HTML text
RECURSIVE Html(_)
Html(elems) == IF elems = <<>> THEN "" ELSE Render(Head(elems)) \o Html(Tail(elems))

\* $("body").text()
RECURSIVE BodyText(_)
BodyText(elems) ==
    IF elems = <<>> THEN ""
    ELSE (IF Head(elems).kind \in {"text", "elem"} THEN Head(elems).text ELSE "")
             \o BodyText(Tail(elems))

Text(raw, text) == Elem("text", {}, "", "", raw, text, NoJson)

PriceClass ==
    {".price, .product-price, . Price, .productPrice",
     "span[class*='price'], div[class*='price']", "[class*='price']"}

T_Mrp    == Text("MRP: ^4,999", "MRP: ^4,999")
T_MrpEnt == Text("MRP: &#x20B9;4,999", "MRP: ^4,999")
T_Inr    == Text("INR 20 INR 1500", "INR 20 INR 1500")
T_Deal   == Text("Deal Price: 799", "Deal Price: 799")
T_List   == Text("Price list ", "Price list ")
T_Phone  == Text("Call 5550100 ", "Call 5550100 ")
E_Price  == Elem("elem", PriceClass, "", "", "^2,499", "^2,499", NoJson)
E_Whole  == Elem("elem", {"span.a-price-whole"}, "", "", "99.", "99.", NoJson)
E_H1     == Elem("elem", {"h1"}, "", "", " Acme Phone ", " Acme Phone ", NoJson)
M_Zero   == Elem("meta", {"meta[itemprop='price']", "[itemprop='price']"}, "0", "", "", "", NoJson)
M_Twitter == Elem("meta", {"meta[name='twitter:data1']"}, "Price: ^1,234", "", "", "", NoJson)
S_State  == Elem("script", {}, "", "", "window.s={price:{amount:1499}}", "", NoJson)

Palette ==
    { T_Mrp, T_MrpEnt, T_Inr, T_Deal, T_List, T_Phone, E_Price, E_Whole, E_H1,
      M_Zero, M_Twitter, S_State, L_500, L_750, L_Zero, L_Bad }

Hostname == {"www.amazon.in", "shop.example"}

MaxElems == 2

MaxBlocks == 3

InitJsonLd ==
    /\ mode = "jsonld"
    /\ input \in SeqsUpTo(LdPalette, MaxBlocks)
    /\ pc = "call"
    /\ stage = 0
    /\ result = Null
    /\ err = ""
    /\ escaped = FALSE
    /\ NoOutside

\* tryJSONLD($) on a document of linked-data script blocks
JsonLdCall ==
    /\ mode = "jsonld"
    /\ pc = "call"
    /\ result' = tryJSONLD(input)
    /\ pc' = "done"
    /\ UNCHANGED <<outside, mode, input, stage, err, escaped>>

NextJsonLd == JsonLdCall

SpecJsonLd == InitJsonLd /\ [][NextJsonLd]_vars

\* C7: tryJSONLD returns the minimum over all the price, lowPrice and
\* highPrice values collected from all Offer nodes and Product.offers entries
\* of all linked-data blocks, wherever the blocks and nodes are placed, and
\* null only when no block yielded a value.
C7_MinimumOverAllBlocks ==
    (mode = "jsonld" /\ pc = "done") =>
        LET all == BlocksFoundAll(input)
        IN  IF all = <<>> THEN result = Null ELSE result = MathMin(all)

----------------------------------------------------------------------------
(* getPrice and getProductInfo.  input is [fn, hostname, elems, data,       *)
(* strict]: the function called, the host of the URL, the page the server  *)
(* holds, whether res.data is a string or a parsed object, and whether the *)
(* selector engine raises on a selector it cannot parse.                   *)

FetchError == {"network", "timeout", "status"}

\* the statements of getPrice inside try { } (lines 303-339)
\* a mutant: the fetch is outside the try block
InTryAfterFetch(at) == at \in {"stage1", "stage2", "stage3", "stage4", "stage5", "stage6", "extract"}

InTry(at) == at \in {"fetch", "stage1", "stage2", "stage3", "stage4", "stage5", "stage6", "extract"}

\* an exception e is raised at the current statement
Raise(e) ==
    /\ err' = e
    /\ IF InTry(pc)
       THEN pc' = "catch" /\ UNCHANGED <<result, escaped>>
       ELSE pc' = "done" /\ escaped' = TRUE /\ UNCHANGED result
    /\ UNCHANGED <<outside, mode, input, stage>>

\* html.includes('₹') ? 'INR' : ''
HintOf(text) == IF Includes(text, "^") THEN "INR" ELSE ""

\* the value each stage of getPrice computes
Stage1Value(in) ==
    pickBestPrice(extractFromSelectors(in.elems, domainSpecificSelectors(in.hostname)),
                  HintOf(Html(in.elems)))

\* a mutant: the embedded-script scan runs in the place of the JSON-LD stage
Stage2Swapped(in) == tryEmbeddedJSON(in.elems)

Stage2Value(in) == tryJSONLD(in.elems)

Stage3Value(in) == tryEmbeddedJSON(in.elems)

Stage4Value(in) ==
    LET scan(html) == pickBestPrice(extractAllCurrencyPrices(html), HintOf(html))
    IN  scan(Html(in.elems))

\* a mutant: the scan of the body text is left out
Stage5Skipped(in) == Null

Stage5Value(in) ==
    LET scan(allText) == pickBestPrice(extractAllCurrencyPrices(allText), HintOf(allText))
    IN  scan(BodyText(in.elems))

Stage6Value(in) == LabelPrice(BodyText(in.elems))

\* the page cannot be processed: res.data is no string (html.includes is no
\* function) or $(sel) raises
StageRaises(in) ==
    IF in.data # "string" THEN "TypeError"
    ELSE IF SelectorRaises(domainSpecificSelectors(in.hostname), in.strict) THEN "SelectorError"
    ELSE ""

InitPrice ==
    /\ mode = "price"
    /\ input \in [fn : {"getPrice", "getProductInfo"}, hostname : Hostname,
                  elems : SeqsUpTo(Palette, MaxElems),
                  data : {"string", "object"}, strict : BOOLEAN]
    /\ pc = "fetch"
    /\ stage = 0
    /\ result = Null
    /\ err = ""
    /\ escaped = FALSE
    /\ NoOutside

\* const html = await fetchHTML(url)
Fetch ==
    /\ mode = "price"
    /\ pc = "fetch"
    /\ \/ /\ pc' = IF input.fn = "getPrice" THEN "stage1" ELSE "extract"
          /\ UNCHANGED <<outside, mode, input, stage, result, err, escaped>>
       \/ \E e \in FetchError : Raise(e)

\* return v from stage n, or go on to the next stage
ReturnOrNext(n, v, next) ==
    /\ IF v # Null
       THEN result' = v /\ stage' = n /\ pc' = "done"
       ELSE pc' = next /\ UNCHANGED <<result, stage>>
    /\ UNCHANGED <<outside, mode, input, err, escaped>>

\* 1) Domain-specific + strong generic selectors
GetPriceStage1 ==
    LET run(e) == IF e # "" THEN Raise(e)
                  ELSE ReturnOrNext(1, Stage1Value(input), "stage2")
    IN  /\ mode = "price" /\ input.fn = "getPrice"
        /\ pc = "stage1"
        /\ run(StageRaises(input))

\* 2) Structured data (JSON-LD)
GetPriceStage2 ==
    /\ mode = "price" /\ input.fn = "getPrice"
    /\ pc = "stage2"
    /\ ReturnOrNext(2, Stage2Value(input), "stage3")

\* 2b) Embedded JSON blobs
GetPriceStage3 ==
    /\ mode = "price" /\ input.fn = "getPrice"
    /\ pc = "stage3"
    /\ ReturnOrNext(3, Stage3Value(input), "stage4")

\* 3) Currency-anchored regex across HTML
GetPriceStage4 ==
    /\ mode = "price" /\ input.fn = "getPrice"
    /\ pc = "stage4"
    /\ ReturnOrNext(4, Stage4Value(input), "stage5")

\* 4) Visible body text scan anchored by currency
GetPriceStage5 ==
    /\ mode = "price" /\ input.fn = "getPrice"
    /\ pc = "stage5"
    /\ ReturnOrNext(5, Stage5Value(input), "stage6")

\* 5) Label-guided scan; return null
GetPriceStage6 ==
    LET return(n) == IF n # Null
                     THEN result' = n /\ stage' = 6
                     ELSE result' = Null /\ stage' = 0
    IN  /\ mode = "price" /\ input.fn = "getPrice"
        /\ pc = "stage6"
        /\ return(Stage6Value(input))
        /\ pc' = "done"
        /\ UNCHANGED <<outside, mode, input, err, escaped>>

\* a mutant: the inlined function ends after the selector stage
InfoPriceSelectorsOnly(in) ==
    LET or1(price1) == IF price1 # Null THEN <<price1, 1>> ELSE <<Null, 0>>
    IN  or1(Stage1Value(in))

\* the function inlined in getProductInfo: <<price, stage>>
InfoPrice(in) ==
    LET or6(n) == IF n # Null THEN <<n, 6>> ELSE <<Null, 0>>
        or5(price3, allText) ==
            IF price3 # Null THEN <<price3, 5>> ELSE or6(LabelPrice(allText))
        body(allText) ==
            or5(pickBestPrice(extractAllCurrencyPrices(allText), HintOf(allText)), allText)
        or4(price2) == IF price2 # Null THEN <<price2, 4>> ELSE body(BodyText(in.elems))
        or3(embedded, html) ==
            IF embedded # Null THEN <<embedded, 3>>
            ELSE or4(pickBestPrice(extractAllCurrencyPrices(html), HintOf(html)))
        or2(jsonLdPrice, html) ==
            IF jsonLdPrice # Null THEN <<jsonLdPrice, 2>>
            ELSE or3(tryEmbeddedJSON(in.elems), html)
        or1(price1, html) ==
            IF price1 # Null THEN <<price1, 1>> ELSE or2(tryJSONLD(in.elems), html)
        page(html) ==
            or1(pickBestPrice(extractFromSelectors(in.elems,
                                                   domainSpecificSelectors(in.hostname)),
                              HintOf(html)),
                html)
    IN  page(Html(in.elems))

\* const title = extractTitle($); const price = (function() { ... })();
\* return { price, title }
InfoExtract ==
    LET return(p) ==
            /\ result' = [price |-> p[1], title |-> extractTitle(input.elems)]
            /\ stage' = p[2]
            /\ pc' = "done"
            /\ UNCHANGED <<outside, mode, input, err, escaped>>
        run(e) == IF e # "" THEN Raise(e) ELSE return(InfoPrice(input))
    IN  /\ mode = "price" /\ input.fn = "getProductInfo"
        /\ pc = "extract"
        /\ run(StageRaises(input))

\* catch (err) { console.error(...); return null } and
\* catch (err) { console.error(...); return { price: null, title: null } }
Catch ==
    /\ mode = "price"
    /\ pc = "catch"
    /\ result' = IF input.fn = "getPrice" THEN Null ELSE [price |-> Null, title |-> NoTitle]
    /\ pc' = "done"
    /\ UNCHANGED <<outside, mode, input, stage, err, escaped>>

Next ==
    \/ Fetch
    \/ GetPriceStage1
    \/ GetPriceStage2
    \/ GetPriceStage3
    \/ GetPriceStage4
    \/ GetPriceStage5
    \/ GetPriceStage6
    \/ InfoExtract
    \/ Catch

Spec == InitPrice /\ [][Next]_vars

----------------------------------------------------------------------------
(* Claims about getPrice and getProductInfo *)

\* a call of getPrice, and one that fetched the page and raised no exception
GetPriceCall == mode = "price" /\ input.fn = "getPrice"
NoException == err = ""

\* the price a finished call hands to its caller
ReturnedPrice == IF input.fn = "getPrice" THEN result ELSE result.price

\* the six stages in the order of the claim, each applied to the page on
\* its own
SixStages(in) ==
    << pickBestPrice(extractFromSelectors(in.elems, domainSpecificSelectors(in.hostname)),
                     HintOf(Html(in.elems))),
       tryJSONLD(in.elems),
       tryEmbeddedJSON(in.elems),
       pickBestPrice(extractAllCurrencyPrices(Html(in.elems)), HintOf(Html(in.elems))),
       pickBestPrice(extractAllCurrencyPrices(BodyText(in.elems)),
                     HintOf(BodyText(in.elems))),
       LabelPrice(BodyText(in.elems)) >>

\* the number of the first stage with a non-null value, or 0
FirstStage(values) ==
    LET first(hit) == IF hit = {} THEN 0 ELSE MinOf(hit)
    IN  first({n \in 1..Len(values) : values[n] # Null})

\* the number of the stage a call is about to run (7: it has returned)
StageAt(at) ==
    CASE at = "stage1" -> 1 [] at = "stage2" -> 2 [] at = "stage3" -> 3
      [] at = "stage4" -> 4 [] at = "stage5" -> 5 [] at = "stage6" -> 6
      [] at = "done" -> 7 [] OTHER -> 0

\* C1: getPrice returns the value of the first stage, in the order selectors,
\* JSON-LD, embedded script state, currency scan of the HTML, currency scan
\* of the body text, label scan, whose value is not null; a stage is only
\* reached when every earlier stage gave null, and null is returned exactly
\* when all six stages give null.  (Calls in which an exception is raised
\* are the subject of C2.)
C1_FirstStageWins ==
    LET holds(values, first, at) ==
            /\ at \in 1..6 => result = Null /\ \A n \in 1..(at - 1) : values[n] = Null
            /\ at = 7 => /\ stage = first
                         /\ result = IF first = 0 THEN Null ELSE values[first]
                         /\ (result = Null) <=> (\A n \in 1..6 : values[n] = Null)
        check(values) == holds(values, FirstStage(values), StageAt(pc))
    IN  (GetPriceCall /\ NoException /\ pc # "fetch") => check(SixStages(input))

\* a page whose script state gives 1499 and whose text would give 4999 to
\* the later currency scan: the embedded-script stage decides
C1_Witness ==
    /\ GetPriceCall /\ NoException /\ pc = "done"
    /\ input.elems = <<T_Mrp, S_State>>
    /\ stage = 3
    /\ result = Num(1499, 0)

\* C2: no exception leaves getPrice or getProductInfo: when the fetch fails
\* or a stage raises, getPrice returns null and getProductInfo returns
\* {price: null, title: null}.
C2_NoExceptionEscapes ==
    mode = "price" =>
        /\ ~escaped
        /\ (pc = "done" /\ ~NoException) =>
               IF input.fn = "getPrice" THEN result = Null
               ELSE result = [price |-> Null, title |-> NoTitle]

\* the fetch of getProductInfo timed out and the call returned the empty pair
C2_Witness ==
    /\ mode = "price" /\ input.fn = "getProductInfo"
    /\ pc = "done" /\ err = "timeout"
    /\ ~escaped
    /\ result = [price |-> Null, title |-> NoTitle]

\* C3: every non-null price that getPrice or getProductInfo returns is a
\* finite number greater than zero.
C3_ReturnedPricePositive ==
    (mode = "price" /\ pc = "done") =>
        LET positive(p) == p = Null \/ (IsNum(p) /\ p.m > 0)
        IN  positive(ReturnedPrice)

\* the text a resolving stage scans, and the pool it resolves
ScannedText(in, n) == IF n = 5 THEN BodyText(in.elems) ELSE Html(in.elems)
PoolOf(in, n) ==
    CASE n = 1 -> extractFromSelectors(in.elems, domainSpecificSelectors(in.hostname))
      [] n = 4 -> extractAllCurrencyPrices(Html(in.elems))
      [] n = 5 -> extractAllCurrencyPrices(BodyText(in.elems))

\* the hint of the claim: Indian Rupees when the text holds the symbol or "INR"
RupeeHint(text) == IF Includes(text, "^") \/ Includes(text, "INR") THEN "INR" ELSE ""

\* C6: a price resolved by the selector stage, the currency scan of the HTML
\* or the currency scan of the body text is resolved with the floor of 50
\* whenever the text the stage scans holds the rupee symbol or the string
\* "INR", and with the floor of 0.5 only when it holds neither.
C6_RupeeFloorBySymbolOrCode ==
    (mode = "price" /\ pc = "done" /\ NoException /\ stage \in {1, 4, 5}) =>
        ReturnedPrice = pickBestPrice(PoolOf(input, stage),
                                      RupeeHint(ScannedText(input, stage)))

\* no selector of the tables matches an element, there is no script block,
\* and the body text holds "MRP: ^4,999"
LabelOnlyPage(in) ==
    /\ extractFromSelectors(in.elems, domainSpecificSelectors(in.hostname)) = <<>>
    /\ \A i \in 1..Len(in.elems) :
           /\ in.elems[i].kind \in {"text", "elem"}
           /\ in.elems[i].sels \cap {"meta[name='twitter:data1']"} = {}
    /\ Includes(BodyText(in.elems), "MRP: ^4,999")

\* C10 as stated: such a page makes getPrice return 4999 from the label
\* scan (stage 6), stages 1 to 5 having given null.
C10_LabelStageYields4999 ==
    (GetPriceCall /\ pc = "done" /\ NoException /\ LabelOnlyPage(input)) =>
        result = Num(4999, 0) /\ stage = 6

\* every amount of the pool is 4999
Only4999(pool) == \A i \in 1..Len(pool) : pool[i] = Num(4999, 0)

\* C10: on such a page the price comes from a currency-anchored scan, of the
\* HTML (stage 4) or else of the body text (stage 5), never from the label
\* scan, and it is 4999 when that scan meets no other amount.
C10_CurrencyScanYields4999 ==
    (GetPriceCall /\ pc = "done" /\ NoException /\ LabelOnlyPage(input)) =>
        /\ stage \in {4, 5}
        /\ Only4999(PoolOf(input, stage)) => result = Num(4999, 0)

\* the symbol is written as a character reference in the HTML: the scan of
\* the HTML finds nothing and the scan of the body text finds 4999
C10_Witness ==
    /\ GetPriceCall /\ pc = "done" /\ NoException
    /\ input.elems = <<T_MrpEnt>>
    /\ LabelOnlyPage(input)
    /\ stage = 5
    /\ result = Num(4999, 0)

----------------------------------------------------------------------------
(* Pages for the selector stage: numbers below the floor, a negative       *)
(* number, an element of a generic rule and one of a hostname rule.        *)

T_Low == Text("Price: 0.2 ", "Price: 0.2 ")
E_Low == Elem("elem", PriceClass, "", "", "0.2", "0.2", NoJson)
E_Neg == Elem("elem", {"[itemprop='price']"}, "", "", "-500", "-500", NoJson)
E_Id  == Elem("elem", {"#price"}, "", "", "75", "75", NoJson)

SelectorPalette == {T_Low, E_Low, E_Neg, E_Id, E_Whole, E_Price, T_List}

InitSelectors ==
    /\ mode = "price"
    /\ input \in [fn : {"getPrice", "getProductInfo"}, hostname : Hostname,
                  elems : SeqsUpTo(SelectorPalette, MaxElems),
                  data : {"string", "object"}, strict : BOOLEAN]
    /\ pc = "fetch"
    /\ stage = 0
    /\ result = Null
    /\ err = ""
    /\ escaped = FALSE
    /\ NoOutside

SpecSelectors == InitSelectors /\ [][Next]_vars

\* the text holds no currency marker, and every number written in it is
\* below the floor of 0.5 that applies without a rupee hint
NoMarker(text) == \A i \in 1..Len(text) : MarkerEnds(text, i) = {}
AllBelowFloor(numbers) == \A i \in 1..Len(numbers) : Less(numbers[i], OtherFloor)
NoPlausibleNumber(text) == NoMarker(text) /\ AllBelowFloor(PlainNumbers(text, 1))

\* C11: for a document with no currency marker and no number at or above
\* the floor, getPrice returns null and raises no error to its caller: no
\* stage returns a number below the floor or without a currency.
C11_NullWithoutPlausibleNumber ==
    (/\ GetPriceCall /\ pc = "done"
     /\ NoPlausibleNumber(Html(input.elems))
     /\ NoPlausibleNumber(BodyText(input.elems)))
        => result = Null /\ ~escaped

----------------------------------------------------------------------------
(* Several invocations of getPrice and getProductInfo in one process.  An  *)
(* invocation runs to its await; fetchHTML resumes when the request        *)
(* settles and returns res.data; the invocation resumes in a later turn of *)
(* the event loop and runs to its return.  Other invocations run between   *)
(* these steps.  heap holds the objects the invocations allocate, as the   *)
(* last one left them: the array candidates (line 282), the array sel      *)
(* (line 200), the lastIndex of the regular expression re (line 87) and    *)
(* the value res.data that fetchHTML returned last (line 31).  A record of *)
(* calls holds the arguments of the invocation, the answer res of the      *)
(* server to its request, and its local html as elems and data.  input is  *)
(* [strict]: the selector engine installed.                                *)

MaxCalls == 2

\* what a server answers: an HTML text, or a body that axios parsed
Responses ==
    { [elems |-> <<E_H1>>, data |-> "string"],
      [elems |-> <<E_Id>>, data |-> "string"],
      [elems |-> <<E_Price>>, data |-> "string"],
      [elems |-> <<>>, data |-> "object"] }

\* the calls made in a session: the function and the host of the URL
Invocations ==
    { [fn |-> "getPrice", hostname |-> "shop.example"],
      [fn |-> "getProductInfo", hostname |-> "www.amazon.in"] }

NoHeap == [candidates |-> <<>>, sel |-> <<>>, lastIndex |-> 0,
           response |-> [elems |-> <<>>, data |-> "string"]]

\* the await expressions of getPrice (line 303) and getProductInfo (line 348)
\* a mutant: getProductInfo awaits getPrice(url) for the price
AwaitsWithGetPrice(fn) ==
    IF fn = "getProductInfo" THEN <<"fetchHTML", "fetchHTML">> ELSE <<"fetchHTML">>

Awaits(fn) == <<"fetchHTML">>

\* const html = await fetchHTML(url): the value of the promise of this call
\* a mutant: fetchHTML leaves res.data in a variable of the module
ReceivedShared(own, last) == last

Received(own, last) == own

\* const candidates = []
\* a mutant: the array is a variable of the module
KeptCandidates(old) == old

NewCandidates(old) == <<>>

\* const sel = []
NewSel(old) == <<>>

\* const re = /.../gi: lastIndex of a new regular expression
NewLastIndex(old) == 0

\* extractAllCurrencyPrices with re.lastIndex as the call finds it
CurrencyPricesFrom(text, lastIndex) ==
    IF text = "" THEN <<>> ELSE ScanCurrency(text, lastIndex + 1)

\* the selector table and the pool of stage 1 of an invocation that finds h
SelOf(c, h) == NewSel(h.sel) \o domainSpecificSelectors(c.hostname)

CandidatesOf(c, h) ==
    NewCandidates(h.candidates) \o extractFromSelectors(c.elems, SelOf(c, h))

\* the values of the six stages of an invocation that finds the heap h
StagesOn(c, h) ==
    LET scan(html) ==
            << pickBestPrice(CandidatesOf(c, h), HintOf(html)),
               Stage2Value(c),
               Stage3Value(c),
               pickBestPrice(CurrencyPricesFrom(html, NewLastIndex(h.lastIndex)),
                             HintOf(html)),
               Stage5Value(c),
               Stage6Value(c) >>
    IN  scan(Html(c.elems))

\* the invocation c resumes after its last await and runs to its return
Returned(c, h) ==
    LET value(fn, price) ==
            IF fn = "getPrice" THEN price
            ELSE [price |-> price, title |-> extractTitle(c.elems)]
        first(values, n) ==
            [c EXCEPT !.pc = "done", !.stage = n,
                      !.result = value(c.fn, IF n = 0 THEN Null ELSE values[n])]
        return(values) == first(values, FirstStage(values))
        catch(e) ==
            [c EXCEPT !.pc = "done", !.err = e,
                      !.result = IF c.fn = "getPrice" THEN Null
                                 ELSE [price |-> Null, title |-> NoTitle]]
        run(e) == IF e # "" THEN catch(e) ELSE return(StagesOn(c, h))
    IN  IF c.err # "" THEN catch(c.err) ELSE run(StageRaises(c))

\* the heap as the invocation c leaves it
HeapAfter(c, h) ==
    IF c.err # "" \/ StageRaises(c) # "" THEN h
    ELSE [h EXCEPT !.candidates = CandidatesOf(c, h), !.sel = SelOf(c, h),
                   !.lastIndex = 0]

InitSession ==
    /\ mode = "session"
    /\ input \in [strict : BOOLEAN]
    /\ pc = ""
    /\ stage = 0
    /\ result = Null
    /\ err = ""
    /\ escaped = FALSE
    /\ calls = <<>>
    /\ heap = NoHeap
    /\ NoWorker

\* getPrice(url) or getProductInfo(url) is called and runs to await
\* fetchHTML(url): axios.get has sent the request
Invoke ==
    /\ mode = "session"
    /\ Len(calls) < MaxCalls
    /\ \E call \in Invocations :
           calls' = Append(calls, [fn |-> call.fn, hostname |-> call.hostname,
                                   strict |-> input.strict,
                                   res |-> NoHeap.response,
                                   elems |-> <<>>, data |-> "string",
                                   pc |-> "axios", awaited |-> 0, requests |-> 1,
                                   result |-> Null, stage |-> 0, err |-> ""])
    /\ UNCHANGED <<mode, input, pc, stage, result, err, escaped, heap, worker>>

\* the request of invocation i settles and fetchHTML runs to its end:
\* return res.data, or the rejection of axios.get
Settle(i) ==
    /\ mode = "session"
    /\ calls[i].pc = "axios"
    /\ \/ \E res \in Responses :
              /\ calls' = [calls EXCEPT ![i].pc = "fetched", ![i].res = res]
              /\ heap' = [heap EXCEPT !.response = res]
       \/ \E e \in FetchError :
              /\ calls' = [calls EXCEPT ![i].pc = "fetched", ![i].err = e]
              /\ UNCHANGED heap
    /\ UNCHANGED <<mode, input, pc, stage, result, err, escaped, worker>>

\* invocation i resumes with the value of await fetchHTML(url); after its
\* last await it runs to its return
Resume(i) ==
    /\ mode = "session"
    /\ calls[i].pc = "fetched"
    /\ \E html \in {Received(calls[i].res, heap.response)} :
       \E c \in {[calls[i] EXCEPT !.elems = html.elems, !.data = html.data,
                                  !.awaited = @ + 1]} :
           IF c.err = "" /\ c.awaited < Len(Awaits(c.fn))
           THEN /\ calls' = [calls EXCEPT ![i] = [c EXCEPT !.pc = "axios",
                                                         !.requests = @ + 1]]
                /\ UNCHANGED heap
           ELSE /\ calls' = [calls EXCEPT ![i] = Returned(c, heap)]
                /\ heap' = HeapAfter(c, heap)
    /\ UNCHANGED <<mode, input, pc, stage, result, err, escaped, worker>>

NextSession ==
    \/ Invoke
    \/ \E i \in 1..Len(calls) : Settle(i)
    \/ \E i \in 1..Len(calls) : Resume(i)

SpecSession == InitSession /\ [][NextSession]_vars

\* what the invocation c returns when it is the only one of its process
Alone(c) ==
    LET value(p, title) ==
            IF c.fn = "getPrice" THEN p[1] ELSE [price |-> p[1], title |-> title]
        own(in) ==
            IF c.err \in FetchError \/ StageRaises(in) # ""
            THEN value(<<Null, 0>>, NoTitle)
            ELSE value(InfoPrice(in), extractTitle(in.elems))
    IN  own([fn |-> c.fn, hostname |-> c.hostname, strict |-> c.strict,
             elems |-> c.res.elems, data |-> c.res.data])

\* C12: the extraction is a function of the document and the URL: two
\* invocations of one function with the same hostname that received the same
\* document return the same value from the same stage, whatever ran before
\* or between them; and nothing the earlier invocations left behind reaches
\* an invocation: one that is about to resume returns what it would return
\* were the objects of the earlier invocations (candidate pool, selector
\* table, lastIndex) absent.
C12_SameDocumentSameResult ==
    mode = "session" =>
        /\ \A i \in 1..Len(calls) : \A j \in 1..Len(calls) :
               (/\ calls[i].pc = "done" /\ calls[j].pc = "done"
                /\ calls[i].fn = calls[j].fn
                /\ calls[i].hostname = calls[j].hostname
                /\ calls[i].res = calls[j].res
                /\ calls[i].err = calls[j].err)
                   => /\ calls[i].result = calls[j].result
                      /\ calls[i].stage = calls[j].stage
        /\ \A i \in 1..Len(calls) :
               calls[i].pc = "fetched" =>
                   \A c \in {[calls[i] EXCEPT !.elems = calls[i].res.elems,
                                              !.data = calls[i].res.data]} :
                       Returned(c, heap) = Returned(c, NoHeap)

\* two invocations of getProductInfo for the same page of the same host, the
\* second one run when the first had left its pool behind
C12_Witness ==
    /\ mode = "session"
    /\ Len(calls) = 2
    /\ \A i \in 1..2 : /\ calls[i].pc = "done"
                       /\ calls[i].fn = "getProductInfo"
                       /\ calls[i].hostname = "www.amazon.in"
                       /\ calls[i].res = [elems |-> <<E_Price>>, data |-> "string"]
                       /\ calls[i].stage = 1
                       /\ calls[i].result = [price |-> Num(2499, 0), title |-> NoTitle]
    /\ heap.candidates # <<>>

\* C13: an invocation of getPrice or getProductInfo returns what it returns
\* when run alone on the document its own request was answered with,
\* however the steps of the other invocations fall between its steps.
C13_InterleavedAsAlone ==
    mode = "session" =>
        \A i \in 1..Len(calls) :
            calls[i].pc = "done" => calls[i].result = Alone(calls[i])

\* the first invocation resumed after the second one's request was answered
\* with another document, and each returned the price of its own document
C13_Witness ==
    /\ mode = "session"
    /\ Len(calls) = 2
    /\ calls[1].pc = "done" /\ calls[2].pc = "done"
    /\ calls[1].res = [elems |-> <<E_Id>>, data |-> "string"]
    /\ calls[2].res = [elems |-> <<E_Price>>, data |-> "string"]
    /\ heap.response = calls[2].res
    /\ heap.candidates = <<Num(75, 0), Num(75, 0)>>
    /\ calls[1].result = Num(75, 0)
    /\ calls[2].result = Num(2499, 0)

\* C14: an invocation of getProductInfo sends one request, on every path:
\* at no step has it sent a second one, and when it has returned without an
\* exception, the document it parsed is the answer to that request, and the
\* title and the price it returns are both taken from this document.
C14_OneFetchPerCall ==
    mode = "session" =>
        \A i \in 1..Len(calls) :
            calls[i].fn = "getProductInfo" =>
                /\ calls[i].requests = 1
                /\ (calls[i].pc = "done" /\ calls[i].err = "") =>
                       /\ calls[i].elems = calls[i].res.elems
                       /\ calls[i].data = calls[i].res.data
                       /\ calls[i].result.title = extractTitle(calls[i].res.elems)
                       /\ calls[i].result.price = InfoPrice(calls[i])[1]

\* one call found a title and no price, the request of another one failed:
\* neither sent a second request
C14_Witness ==
    /\ mode = "session"
    /\ Len(calls) = 2
    /\ \A i \in 1..2 : /\ calls[i].fn = "getProductInfo"
                       /\ calls[i].pc = "done"
                       /\ calls[i].requests = 1
    /\ calls[1].res = [elems |-> <<E_H1>>, data |-> "string"]
    /\ calls[1].result = [price |-> Null, title |-> Str("Acme Phone")]
    /\ calls[2].err = "timeout"
    /\ calls[2].result = [price |-> Null, title |-> NoTitle]

----------------------------------------------------------------------------
(* getProductInfo on pages with titles *)

M_OgTitle    == Elem("meta", {"meta[property='og:title']"}, " Acme Phone X ", "", "", "", NoJson)
M_OgEmpty    == Elem("meta", {"meta[property='og:title']"}, "", "", "", "", NoJson)
E_Title      == Elem("title", {"title"}, "", "", "Acme Shop", "Acme Shop", NoJson)
E_TitleBlank == Elem("title", {"title"}, "", "", " ", " ", NoJson)
E_H1Sale     == Elem("elem", {"h1"}, "", "", "Sale", "Sale", NoJson)

TitlePalette ==
    {M_OgTitle, M_OgEmpty, E_Title, E_TitleBlank, E_H1, E_H1Sale, E_Price, T_Mrp, S_State}

InitTitle ==
    /\ mode = "price"
    /\ input \in [fn : {"getPrice", "getProductInfo"}, hostname : Hostname,
                  elems : SeqsUpTo(TitlePalette, MaxElems),
                  data : {"string", "object"}, strict : BOOLEAN]
    /\ pc = "fetch"
    /\ stage = 0
    /\ result = Null
    /\ err = ""
    /\ escaped = FALSE
    /\ NoOutside

SpecTitle == InitTitle /\ [][Next]_vars

\* the value a title source offers: the content attribute (Open Graph meta
\* tag) or the text (title element, h1) of the first element that sel
\* matches; "" when no element matches or the value is empty
Offered(elems, sel) ==
    LET value(e)    == IF e.kind = "meta" THEN e.content ELSE e.text
        first(hits) == IF hits = <<>> THEN "" ELSE value(Head(hits))
    IN  first(SelectSeq(elems, LAMBDA e : sel \in e.sels))

\* C15: a call of getProductInfo that raises no exception returns as title
\* the trimmed content of the Open Graph title meta tag when it has one,
\* otherwise the trimmed text of the title element when it has one,
\* otherwise the trimmed text of the first h1 when it has one, and null
\* exactly when none of the three offers a value (absent or empty); this
\* holds whichever stage produced the price, and when none did.
C15_TitleOrder ==
    LET holds(og, ti, h1) ==
            /\ result.title = IF og # "" THEN Str(Trim(og))
                              ELSE IF ti # "" THEN Str(Trim(ti))
                              ELSE IF h1 # "" THEN Str(Trim(h1))
                              ELSE NoTitle
            /\ (result.title = NoTitle) <=> (og = "" /\ ti = "" /\ h1 = "")
    IN  (/\ mode = "price" /\ input.fn = "getProductInfo"
         /\ pc = "done" /\ err = "")
            => holds(Offered(input.elems, "meta[property='og:title']"),
                     Offered(input.elems, "title"),
                     Offered(input.elems, "h1"))

\* a page with a title element and an Open Graph title and no price at all:
\* the Open Graph title is returned, with a null price
C15_Witness ==
    /\ mode = "price" /\ input.fn = "getProductInfo"
    /\ pc = "done" /\ err = ""
    /\ input.elems = <<E_Title, M_OgTitle>>
    /\ stage = 0
    /\ result = [price |-> Null, title |-> Str("Acme Phone X")]

----------------------------------------------------------------------------
(* The price checks of the bot worker (src/bot.js) and of the check        *)
(* endpoint (src/app/api/check/route.js).  A run is one execution of       *)
(* checkAllPrices (started by the cron task or by startBot), of the        *)
(* callback of a per-chat interval, or of handleCheck.  The field at of a  *)
(* run names the promise it awaits; one action is the code from the        *)
(* settling of that promise to the next await.  Its fields chat, old,      *)
(* newPrice, changed, invoked, ended and stored describe the check of the  *)
(* product it checked last.  getPrice is an input: it resolves with a      *)
(* price or with null (it never rejects).  The database is taken to answer *)
(* every find and save; products are neither added nor removed while       *)
(* checks run, and the title refresh of handleCheck is left out.  Timers   *)
(* fire whether or not an earlier run has ended.                           *)

MaxProducts == 1

MaxRuns == 2

\* the runs at a time in the harnesses of a single path or of several
\* products
MaxSolo == 1

\* the clock runs from 0 to MaxTime minutes
MaxTime == 2

Chat == "42"

\* what getPrice resolves with
Quote == {Null, Num(100, 0), Num(90, 0)}

\* lastCheckedAt of a product that was never checked
Never == -1

\* the frequencies of the /frequency keyboard that the model uses
Minutes == {1, 10}

\* intervalMinutes of a chat without a ChatSettings document
NoSetting == 0

\* no timer is registered
NoTimers == [map |-> <<>>, active |-> {}, next |-> 1, stop |-> ""]

\* the document of product id as Product.find returns it; modified are the
\* paths assigned since, which save() writes
Doc(id) ==
    [id |-> id, lastPrice |-> db[id].lastPrice, chatId |-> db[id].chatId,
     lastCheckedAt |-> db[id].lastCheckedAt, modified |-> {}]

\* p.lastPrice = v
SetPrice(p, v) ==
    [p EXCEPT !.lastPrice = v,
              !.modified = IF v = p.lastPrice THEN @ ELSE @ \cup {"lastPrice"}]

\* p.lastCheckedAt = new Date()
SetChecked(p, t) == [p EXCEPT !.lastCheckedAt = t, !.modified = @ \cup {"lastCheckedAt"}]

\* await p.save(): the modified paths are written to the stored document
Stored(old, p) ==
    [old EXCEPT !.lastPrice = IF "lastPrice" \in p.modified THEN p.lastPrice ELSE @,
                !.lastCheckedAt = IF "lastCheckedAt" \in p.modified
                                  THEN p.lastCheckedAt ELSE @]

\* a run at its first await: Product.find
NewRun(path, notify, key) ==
    [path |-> path, notify |-> notify, key |-> key, products |-> <<>>, k |-> 0,
     at |-> "find", chat |-> "", newPrice |-> Null, old |-> Null, note |-> "",
     changed |-> FALSE, invoked |-> FALSE, ended |-> FALSE, stored |-> Null,
     results |-> <<>>, fetched |-> <<>>, need |-> 0, since |-> 0, found |-> FALSE,
     status |-> "", delivered |-> TRUE]

\* getPrice(p.url) is called for the product of the run
Call(run) ==
    [run EXCEPT !.at = "getPrice",
                !.fetched = Append(@, [id |-> run.products[run.k].id, t |-> now])]

\* for (const p of products): the next product, or the end of the run
Advance(run) ==
    IF run.k + 1 > Len(run.products)
    THEN [run EXCEPT !.k = @ + 1, !.at = "end"]
    ELSE IF run.path = "endpoint"
    THEN [run EXCEPT !.k = @ + 1, !.at = "due"]
    ELSE Call([run EXCEPT !.k = @ + 1])

\* results.push({ url: p.url, status }) in handleCheck
Push(run, status) ==
    IF run.path = "endpoint"
    THEN [run EXCEPT !.results = Append(@, [id |-> run.products[run.k].id,
                                           status |-> status])]
    ELSE run

\* the check of one product ends: await sleep(REQUEST_DELAY_MS) in the
\* worker, the next product in handleCheck
Ended(run) ==
    IF run.path = "endpoint"
    THEN Advance([run EXCEPT !.ended = TRUE])
    ELSE [run EXCEPT !.ended = TRUE, !.at = "sleep"]

\* a mutant: a null price ends the run (break in the place of continue)
SkippedEndsRun(run) == [run EXCEPT !.ended = TRUE, !.at = "end"]

\* getPrice gave null: sleep and continue in checkAllPrices, continue in the
\* interval callback and in handleCheck
Skipped(run) ==
    IF run.path \in {"interval", "endpoint"}
    THEN Advance([run EXCEPT !.ended = TRUE])
    ELSE [run EXCEPT !.ended = TRUE, !.at = "sleep"]

\* whether the run sends a message when the price of p has changed
Notifies(run, p) ==
    CASE run.path \in {"cron", "initial"} -> run.notify /\ p.chatId # ""
      [] run.path = "interval" -> TRUE
      [] run.path = "endpoint" -> p.chatId # ""

\* whether the run sends a message when the price of p has not changed
NotifiesSame(run, p) ==
    CASE run.path \in {"cron", "initial"} -> run.notify /\ p.chatId # ""
      [] run.path = "interval" -> TRUE
      [] run.path = "endpoint" -> FALSE

\* the chat a message of the run goes to
Target(run, p) == IF run.path = "interval" THEN run.key ELSE p.chatId

\* setupPerChatInterval(chatId, minutes) on the timers t: the timer of the
\* chat, if perChatIntervals has one, is cleared and deleted from the map; a
\* new timer is set and entered
setupPerChatInterval(t, key, minutes) ==
    LET set(c) ==
            [c EXCEPT !.active = @ \cup {[id |-> c.next, key |-> key, minutes |-> minutes,
                                         due |-> now + minutes]},
                      !.map = [k \in DOMAIN c.map \cup {key} |->
                                  IF k = key THEN c.next ELSE c.map[k]],
                      !.next = @ + 1]
    IN  set(IF key \in DOMAIN t.map
            THEN [t EXCEPT !.active = {a \in @ : a.id # t.map[key]},
                           !.map = [k \in DOMAIN t.map \ {key} |-> t.map[k]]]
            ELSE t)

\* the timers after startBot has set up the interval of Chat, if it has a
\* ChatSettings document
TimerOf(minutes) ==
    IF minutes = NoSetting THEN NoTimers
    ELSE setupPerChatInterval(NoTimers, Chat, minutes)

InitWorker ==
    /\ mode = "worker"
    /\ input = [cap |-> MaxRuns]
    /\ pc = ""
    /\ stage = 0
    /\ result = Null
    /\ err = ""
    /\ escaped = FALSE
    /\ calls = <<>>
    /\ heap = <<>>
    /\ db \in [1..MaxProducts -> [lastPrice : {Null, Num(100, 0)}, chatId : {"", Chat},
                                  lastCheckedAt : {Never, 0}]]
    /\ runs = <<>>
    /\ sent = {}
    /\ now = 0
    /\ settings \in [{Chat} -> {NoSetting} \cup Minutes]
    /\ timers = TimerOf(settings[Chat])

\* a minute passes
Tick ==
    /\ mode = "worker"
    /\ now < MaxTime
    /\ now' = now + 1
    /\ UNCHANGED <<mode, input, pc, stage, result, err, escaped, calls, heap, db, runs,
                   sent, settings, timers>>

\* A run starts and awaits Product.find.

\* cron.schedule(CHECK_CRON, async () => { await checkAllPrices(true) });
\* the schedule is a setting of the environment (every minute by default),
\* so the task may fire at any time
CronTick ==
    /\ mode = "worker"
    /\ Len(runs) < input.cap
    /\ runs' = Append(runs, NewRun("cron", TRUE, ""))
    /\ UNCHANGED <<mode, input, pc, stage, result, err, escaped, calls, heap, db, sent, clock>>

\* if (RUN_INITIAL_CHECK) await checkAllPrices(false), in startBot
InitialCheck ==
    /\ mode = "worker"
    /\ runs = <<>>
    /\ Len(runs) < input.cap
    /\ runs' = Append(runs, NewRun("initial", FALSE, ""))
    /\ UNCHANGED <<mode, input, pc, stage, result, err, escaped, calls, heap, db, sent, clock>>

\* the callback of setInterval in setupPerChatInterval: the timer is due
\* every minutes * 60 * 1000 ms
IntervalFires ==
    /\ mode = "worker"
    /\ Len(runs) < input.cap
    /\ \E t \in timers.active :
           /\ t.due <= now
           /\ runs' = Append(runs, NewRun("interval", TRUE, t.key))
           /\ timers' = [timers EXCEPT !.active =
                            (@ \ {t}) \cup {[t EXCEPT !.due = @ + t.minutes]}]
    /\ UNCHANGED <<mode, input, pc, stage, result, err, escaped, calls, heap, db, sent,
                   now, settings>>

\* a request to the check endpoint with the secret: handleCheck
CheckRequest ==
    /\ mode = "worker"
    /\ Len(runs) < input.cap
    /\ runs' = Append(runs, NewRun("endpoint", TRUE, ""))
    /\ UNCHANGED <<mode, input, pc, stage, result, err, escaped, calls, heap, db, sent, clock>>

\* Product.find({}) or Product.find({ chatId: key }) resolves
Found(r) ==
    /\ mode = "worker"
    /\ runs[r].at = "find"
    /\ \E run \in {runs[r]} :
       \E docs \in {SelectSeq([id \in 1..Len(db) |-> Doc(id)],
                              LAMBDA d : run.path # "interval" \/ d.chatId = run.key)} :
           runs' = [runs EXCEPT ![r] = Advance([run EXCEPT !.products = docs, !.k = 0])]
    /\ UNCHANGED <<mode, input, pc, stage, result, err, escaped, calls, heap, db, sent, clock>>

\* intervalMinutes with the default of the ChatSettings schema, 180, in place of
\* the default of handleCheck
IntervalMinutesSchemaDefault(p, answers) ==
    IF p.chatId # "" /\ answers /\ settings[p.chatId] # NoSetting
    THEN settings[p.chatId] ELSE 180

\* intervalMinutes as handleCheck obtains it: 1, or the value of the chat's
\* ChatSettings document when the product has a chat, the lookup answers
\* and finds one
IntervalMinutes(p, answers) ==
    IF p.chatId # "" /\ answers /\ settings[p.chatId] # NoSetting
    THEN settings[p.chatId] ELSE 1

\* handleCheck: ChatSettings.findOne resolves or rejects; the product was
\* checked less than intervalMinutes ago (skipped, continue), or getPrice is
\* called
Due(r) ==
    /\ mode = "worker"
    /\ runs[r].at = "due"
    /\ \E answers \in BOOLEAN :
       \E p \in {runs[r].products[runs[r].k]} :
       \E run \in {[runs[r] EXCEPT !.need = IntervalMinutes(p, answers),
                                   !.since = IF p.lastCheckedAt = Never THEN Never
                                             ELSE now - p.lastCheckedAt,
                                   !.found = answers]} :
           IF p.lastCheckedAt # Never /\ now - p.lastCheckedAt < run.need
           THEN runs' = [runs EXCEPT ![r] = Advance(Push(run, "skipped"))]
           ELSE runs' = [runs EXCEPT ![r] = Call(run)]
    /\ UNCHANGED <<mode, input, pc, stage, result, err, escaped, calls, heap, db, sent, clock>>

\* await getPrice(p.url) resolves with v
Priced(r) ==
    /\ mode = "worker"
    /\ runs[r].at = "getPrice"
    /\ \E v \in Quote : \E p \in {runs[r].products[runs[r].k]} :
       \E run \in {[runs[r] EXCEPT !.chat = p.chatId,
                                   !.newPrice = v, !.old = p.lastPrice, !.note = "",
                                   !.changed = FALSE, !.invoked = FALSE,
                                   !.ended = FALSE, !.stored = db[p.id].lastPrice]} :
           CASE v = Null ->
                    /\ runs' = [runs EXCEPT ![r] = Skipped(run)]
                    /\ UNCHANGED sent
             [] v # Null /\ p.lastPrice = Null ->
                    /\ runs' = [runs EXCEPT ![r] =
                                   [run EXCEPT !.products[run.k] =
                                                   SetChecked(SetPrice(p, v), now),
                                               !.at = "save",
                                               !.note = IF run.path = "interval"
                                                        THEN "init" ELSE "",
                                               !.status = "initialized"]]
                    /\ UNCHANGED sent
             [] v # Null /\ p.lastPrice # Null /\ v # p.lastPrice ->
                    IF Notifies(run, p)
                    THEN /\ runs' = [runs EXCEPT ![r] =
                                        [run EXCEPT !.changed = TRUE, !.invoked = TRUE,
                                                    !.at = "send"]]
                         /\ sent' = sent \cup {[chat |-> Target(run, p), kind |-> "changed",
                                                old |-> p.lastPrice, new |-> v]}
                    ELSE /\ runs' = [runs EXCEPT ![r] =
                                        [Push(run, "changed") EXCEPT
                                            !.changed = TRUE,
                                            !.products[run.k] =
                                                SetChecked(SetPrice(p, v), now),
                                            !.at = "save", !.status = ""]]
                         /\ UNCHANGED sent
             [] v # Null /\ p.lastPrice # Null /\ v = p.lastPrice ->
                    /\ runs' = [runs EXCEPT ![r] =
                                   [run EXCEPT !.products[run.k] = SetChecked(p, now),
                                               !.at = "save",
                                               !.note = IF NotifiesSame(run, p)
                                                        THEN "same" ELSE "",
                                               !.status = "no-change"]]
                    /\ UNCHANGED sent
    /\ UNCHANGED <<mode, input, pc, stage, result, err, escaped, calls, heap, db, clock>>

\* await sendMessage(...) of the changed price resolves (ok) or rejects: the
\* interval callback leaves the product, the other paths go on to save
Sent(r) ==
    /\ mode = "worker"
    /\ runs[r].at = "send"
    /\ \E ok \in BOOLEAN : \E run \in {runs[r]} :
           IF ~ok /\ run.path = "interval"
           THEN runs' = [runs EXCEPT ![r] = Ended([run EXCEPT !.delivered = FALSE])]
           ELSE runs' = [runs EXCEPT ![r] =
                            [Push(run, "changed") EXCEPT
                                !.products[run.k] =
                                    SetChecked(SetPrice(run.products[run.k],
                                                        run.newPrice), now),
                                !.at = "save", !.status = "", !.delivered = ok]]
    /\ UNCHANGED <<mode, input, pc, stage, result, err, escaped, calls, heap, db, sent, clock>>

\* await p.save() resolves; the message about an unchanged or initialized
\* price is sent after it
Saved(r) ==
    /\ mode = "worker"
    /\ runs[r].at = "save"
    /\ \E p \in {runs[r].products[runs[r].k]} :
       \E doc \in {Stored(db[p.id], p)} :
       \E run \in {[(IF runs[r].status = "" THEN runs[r] ELSE Push(runs[r], runs[r].status))
                        EXCEPT !.stored = doc.lastPrice,
                               !.products[runs[r].k].modified = {}]} :
           /\ db' = [db EXCEPT ![p.id] = doc]
           /\ IF run.note # ""
              THEN /\ runs' = [runs EXCEPT ![r] = [run EXCEPT !.at = "note"]]
                   /\ sent' = sent \cup {[chat |-> Target(run, p), kind |-> run.note,
                                          old |-> run.old, new |-> run.newPrice]}
              ELSE /\ runs' = [runs EXCEPT ![r] = Ended(run)]
                   /\ UNCHANGED sent
    /\ UNCHANGED <<mode, input, pc, stage, result, err, escaped, calls, heap, clock>>

\* await sendMessage(...) of the message sent after save resolves or rejects
Noted(r) ==
    /\ mode = "worker"
    /\ runs[r].at = "note"
    /\ \E run \in {runs[r]} : runs' = [runs EXCEPT ![r] = Ended(run)]
    /\ UNCHANGED <<mode, input, pc, stage, result, err, escaped, calls, heap, db, sent, clock>>

\* await sleep(REQUEST_DELAY_MS) resolves
Slept(r) ==
    /\ mode = "worker"
    /\ runs[r].at = "sleep"
    /\ \E run \in {runs[r]} : runs' = [runs EXCEPT ![r] = Advance(run)]
    /\ UNCHANGED <<mode, input, pc, stage, result, err, escaped, calls, heap, db, sent, clock>>

NextWorker ==
    \/ Tick
    \/ CronTick
    \/ InitialCheck
    \/ IntervalFires
    \/ CheckRequest
    \/ \E r \in 1..Len(runs) : Found(r)
    \/ \E r \in 1..Len(runs) : Due(r)
    \/ \E r \in 1..Len(runs) : Priced(r)
    \/ \E r \in 1..Len(runs) : Sent(r)
    \/ \E r \in 1..Len(runs) : Saved(r)
    \/ \E r \in 1..Len(runs) : Noted(r)
    \/ \E r \in 1..Len(runs) : Slept(r)

SpecWorker == InitWorker /\ [][NextWorker]_vars

\* the run awaits getPrice, sendMessage or save for product id: a check of
\* the product, from the call of getPrice through save, is in progress
Checking(run, id) ==
    /\ run.at \in {"getPrice", "send", "save"}
    /\ run.products[run.k].id = id

\* C16: in checkAllPrices, in the per-chat interval callback and in
\* handleCheck, when the check of a product of a chat has ended and the
\* price it extracted was not null and differed from the product's
\* lastPrice, which was not null, then sendMessage was called for the chat
\* with the old and the new price, and the lastPrice stored at the end of
\* the check is the extracted price.
C16_ChangeNotifiedAndStored ==
    mode = "worker" =>
        \A r \in 1..Len(runs) : \A run \in {runs[r]} :
            (run.ended /\ run.changed /\ run.chat # "")
                => /\ run.invoked
                   /\ [chat |-> run.chat, kind |-> "changed",
                       old |-> run.old, new |-> run.newPrice] \in sent
                   /\ run.stored = run.newPrice

\* C17: in the bot worker (the cron task, the initial check and the interval
\* callbacks) no two runs are checking the same product at the same time.
C17_ChecksSerialized ==
    mode = "worker" =>
        \A r1 \in 1..Len(runs) : \A r2 \in 1..Len(runs) :
            (/\ r1 # r2
             /\ runs[r1].path # "endpoint" /\ runs[r2].path # "endpoint")
                => \A id \in 1..Len(db) :
                       ~(Checking(runs[r1], id) /\ Checking(runs[r2], id))

\* every number of the pool is finite and not negative
FiniteNonNegative(pool) ==
    \A i \in 1..Len(pool) : IsNum(pool[i]) /\ Leq(Num(0, 0), pool[i])

\* C18: the candidate pools that the stages of a call of getPrice have built
\* (the selector stage, the currency scan of the HTML, the currency scan of
\* the body text) hold finite numbers that are not negative.
C18_PoolFiniteNonNegative ==
    (GetPriceCall /\ NoException) =>
        \A n \in {1, 4, 5} :
            StageAt(pc) > n => FiniteNonNegative(PoolOf(input, n))

\* the rules of the group "amazon" (tracker.js:202-211)
AmazonRules ==
    { "#corePrice_feature_div .a-price .a-offscreen", "#priceblock_ourprice",
      "#priceblock_dealprice", "#priceblock_saleprice", ".a-price .a-offscreen",
      "span.a-price-whole" }

\* the rules of the list before its generic tail
SpecificRules(sel) == SubSeq(sel, 1, Len(sel) - Len(GenericSelectors))

\* C19: the rule list ends with the generic rules and has every rule of a
\* hostname group whose key the hostname contains before them; and when the
\* candidates of the hostname rules alone resolve to a price, the selector
\* stage returns this price: a candidate of a generic rule does not take
\* its place.
C19_HostnameRulesPreferred ==
    LET prefers(best) == best # Null => (stage = 1 /\ result = best)
        holds(sel, hint) ==
            /\ SubSeq(sel, Len(sel) - Len(GenericSelectors) + 1, Len(sel)) = GenericSelectors
            /\ Includes(Lower(input.hostname), "amazon") =>
                   \A rule \in AmazonRules :
                       \E i \in 1..Len(SpecificRules(sel)) : sel[i] = rule
            /\ prefers(pickBestPrice(SelectorCandidates(input.elems, SpecificRules(sel)),
                                     hint))
    IN  (GetPriceCall /\ NoException /\ StageAt(pc) > 1)
            => holds(domainSpecificSelectors(input.hostname), HintOf(Html(input.elems)))

----------------------------------------------------------------------------
(* getPrice on pages with linked-data blocks that JSON.parse rejects *)

\* an object literal with unquoted keys: no JSON
L_Literal == LdBlock("{@type:\"Offer\",price:300}", FALSE, <<>>)

LdPagePalette == {L_500, L_750, L_Org, L_Bad, L_Literal, T_Deal, T_List}

InitLdPage ==
    /\ mode = "price"
    /\ input \in [fn : {"getPrice", "getProductInfo"}, hostname : Hostname,
                  elems : SeqsUpTo(LdPagePalette, MaxElems),
                  data : {"string", "object"}, strict : BOOLEAN]
    /\ pc = "fetch"
    /\ stage = 0
    /\ result = Null
    /\ err = ""
    /\ escaped = FALSE
    /\ NoOutside

SpecLdPage == InitLdPage /\ [][Next]_vars

\* the positions of the linked-data blocks that are no JSON
InvalidBlocks(elems) ==
    {i \in 1..Len(elems) : elems[i].kind = "ldjson" /\ elems[i].raw # ""
                           /\ ~elems[i].json.valid}

\* the page without its element i
Without(elems, i) == SubSeq(elems, 1, i - 1) \o SubSeq(elems, i + 1, Len(elems))

\* what getPrice returns for a page it processes without an exception
FirstValue(values) ==
    LET pick(n) == IF n = 0 THEN Null ELSE values[n]
    IN  pick(FirstStage(values))

\* C20 as stated: a call of getPrice on a page with a linked-data block that
\* is no JSON raises no exception and returns what it returns for the page
\* without this block.
C20_SameAsBlockRemoved ==
    (GetPriceCall /\ NoException /\ pc = "done") =>
        /\ ~escaped
        /\ \A i \in InvalidBlocks(input.elems) :
               \A page \in {[input EXCEPT !.elems = Without(input.elems, i)]} :
                   result = FirstValue(SixStages(page))

\* C20, corrected: a linked-data block that is no JSON adds nothing to the
\* JSON-LD stage and does not end it: the stage gives what it gives for the
\* page without the block; the call raises no exception, and when the
\* JSON-LD stage gives null the later stages run on the whole page, the text
\* of the block included, and the first that is not null gives the result.
C20_JsonLdStageSkipsBlock ==
    (GetPriceCall /\ NoException) =>
        /\ ~escaped
        /\ \A i \in InvalidBlocks(input.elems) :
               /\ tryJSONLD(input.elems) = tryJSONLD(Without(input.elems, i))
               /\ \A values \in {SixStages(input)} :
                      (pc = "done" /\ values[1] = Null /\ values[2] = Null)
                          => /\ stage \in {0, 3, 4, 5, 6}
                             /\ result = FirstValue(values)

\* a block that is no JSON stands before a block with an offer: the JSON-LD
\* stage returns the price of the second block
C20_Witness ==
    /\ GetPriceCall /\ NoException /\ pc = "done"
    /\ input.elems = <<L_Bad, L_500>>
    /\ stage = 2
    /\ result = Num(500, 0)

----------------------------------------------------------------------------
(* The embedded-script stage on whole pages *)

S_Small == Elem("script", {}, "", "", "x={amount:12,value:7,price:45.50}", "", NoJson)
S_Low   == Elem("script", {}, "", "", "a={price:250}", "", NoJson)
S_Sell  == Elem("script", {}, "", "", "s={sellingPrice:{value:99}}", "", NoJson)
S_Qty   == Elem("script", {}, "", "", "q={value:1200,amount:\"980\"}", "", NoJson)
S_None  == Elem("script", {}, "", "", "var n=1;", "", NoJson)

ScriptPalette ==
    {S_State, S_Small, S_Low, S_Sell, S_Qty, S_None, T_Deal}

InitScripts ==
    /\ mode = "price"
    /\ input \in [fn : {"getPrice", "getProductInfo"}, hostname : Hostname,
                  elems : SeqsUpTo(ScriptPalette, MaxElems),
                  data : {"string", "object"}, strict : BOOLEAN]
    /\ pc = "fetch"
    /\ stage = 0
    /\ result = Null
    /\ err = ""
    /\ escaped = FALSE
    /\ NoOutside

SpecScripts == InitScripts /\ [][Next]_vars

PriceLikeKeys == {"finalprice", "sellingprice", "marketplacesellersellingprice", "price"}

GenericKeys == {"price", "amount", "value"}

\* the number of integer digits of the occurrence key : "? digits at position
\* j of the text, or -1 when there is no such occurrence at j
IntegerDigits(s, j) ==
    LET run(g)   == RunEnd(s, g, Digit) - g
        quote(c) == IF c = 0 THEN -1 ELSE run(IF Ch(s, c) = "\"" THEN c + 1 ELSE c)
        colon(k) == quote(IF k = 0 THEN 0 ELSE ColonEnd(s, k))
        digits(n) == IF n = 0 THEN -1 ELSE n
    IN  digits(colon(KeyEnd(s, j, GenericKeys)))

\* the occurrences of a generic key with a number in the text
Occurrences(s) == {j \in 1..Len(s) : IntegerDigits(s, j) > 0}

\* position j lies in the braces opened after a price-like key
NestedUnderPrice(s, j) ==
    \E i \in 1..(j - 1) :
        LET open(c)  == /\ c # 0 /\ c < j /\ Ch(s, c) = "{"
                        /\ \A b \in (c + 1)..(j - 1) : Ch(s, b) # "}"
            colon(k) == open(IF k = 0 THEN 0 ELSE ColonEnd(s, k))
        IN  colon(KeyEnd(s, i, PriceLikeKeys))

\* some pattern of the stage matches somewhere in the text
PatternMatches(s) ==
    \E j \in 1..Len(s) :
        \/ NestedAt(s, j)[1] > 0
        \/ KeyValueAt(s, j, {"price"})[1] > 0
        \/ KeyValueAt(s, j, {"amount", "value"})[1] > 0

\* the values of a sequence
Values(seq) == {seq[i] : i \in 1..Len(seq)}

\* the page with its elements in the order p
Permuted(elems, p) == [i \in 1..Len(elems) |-> elems[p[i]]]

\* C21: tryEmbeddedJSON returns the minimum of the matches of all its patterns
\* in all script blocks, whatever the order of the scripts; it returns null
\* exactly when no pattern matches in any script; and a script whose generic
\* price/amount/value occurrences all have fewer than three integer digits and
\* stand outside the braces of a price-like key pushes nothing (all of this
\* for the page a call starts with). A call that returns from this stage
\* returns this value.
C21_EmbeddedMinOfAllScripts ==
    \A elems \in {input.elems} :
        /\ (mode = "price" /\ pc = "done" /\ stage = 3 /\ err = "") =>
               \A r \in {tryEmbeddedJSON(elems)} :
                   IF input.fn = "getPrice" THEN result = r ELSE result.price = r
        /\ (mode = "price" /\ pc = "fetch") =>
               \A texts \in {ScriptTexts(elems)} :
               \A r \in {tryEmbeddedJSON(elems)} :
                   /\ (r = Null) <=>
                          (\A i \in 1..Len(texts) : ~PatternMatches(texts[i].raw))
                   /\ r # Null =>
                          /\ \E i \in 1..Len(texts) :
                                 r \in Values(ScriptPrices(texts[i].raw))
                          /\ \A i \in 1..Len(texts) :
                                 \A v \in Values(ScriptPrices(texts[i].raw)) : Leq(r, v)
                   /\ \A p \in Permutations(1..Len(elems)) :
                          tryEmbeddedJSON(Permuted(elems, p)) = r
                   /\ \A i \in 1..Len(texts) :
                          \A s \in {texts[i].raw} :
                              (\A j \in Occurrences(s) :
                                   IntegerDigits(s, j) < 3 /\ ~NestedUnderPrice(s, j))
                                  => ScriptPrices(s) = <<>>

\* the second script holds the smallest match: the stage returns 980, not the
\* 1499 of the first script
C21_Witness ==
    /\ mode = "price" /\ pc = "done" /\ err = ""
    /\ input.fn = "getPrice"
    /\ input.elems = <<S_State, S_Qty>>
    /\ stage = 3
    /\ result = Num(980, 0)

\* a script of small numbers next to one with a price: getPrice returns 250
C21_WitnessSmall ==
    /\ mode = "price" /\ pc = "done" /\ err = ""
    /\ input.elems = <<S_Small, S_Low>>
    /\ stage = 3
    /\ result = Num(250, 0)

----------------------------------------------------------------------------
(* The frequency test of handleCheck *)

\* requests to the check endpoint alone, at some time: the bot worker does
\* not run, and the clock stands while a request is handled
InitEndpoint ==
    /\ mode = "worker"
    /\ input = [cap |-> MaxSolo]
    /\ pc = ""
    /\ stage = 0
    /\ result = Null
    /\ err = ""
    /\ escaped = FALSE
    /\ calls = <<>>
    /\ heap = <<>>
    /\ db \in [1..MaxProducts -> [lastPrice : {Null, Num(100, 0)}, chatId : {"", Chat},
                                  lastCheckedAt : {Never, 0}]]
    /\ runs = <<>>
    /\ sent = {}
    /\ now \in 0..MaxTime
    /\ settings \in [{Chat} -> {NoSetting} \cup Minutes]
    /\ timers = NoTimers

NextEndpoint ==
    \/ CheckRequest
    \/ \E r \in 1..Len(runs) : Found(r)
    \/ \E r \in 1..Len(runs) : Due(r)
    \/ \E r \in 1..Len(runs) : Priced(r)
    \/ \E r \in 1..Len(runs) : Sent(r)
    \/ \E r \in 1..Len(runs) : Saved(r)

SpecEndpoint == InitEndpoint /\ [][NextEndpoint]_vars

\* the step of run r in which handleCheck decides about its product
Decides(r) == runs[r].path = "endpoint" /\ runs[r].at = "due" /\ runs'[r] # runs[r]

\* the product was checked less than need minutes ago
TooEarly(p, need) == p.lastCheckedAt # Never /\ now - p.lastCheckedAt < need

\* C22: when handleCheck comes to a product, intervalMinutes is the value of
\* the ChatSettings document of the product's chat, and 1 when there is none
\* (or the product has no chat, or the lookup fails). A product whose
\* lastCheckedAt lies less than intervalMinutes before the current time is
\* reported as skipped, getPrice is not called for it, nothing is sent and no
\* document is changed; getPrice is called only for a product without
\* lastCheckedAt or with at least intervalMinutes elapsed.
C22_FrequencyRespected ==
    [][\A r \in 1..Len(runs) :
           /\ (runs[r].path = "endpoint" /\ runs'[r].fetched # runs[r].fetched)
                  => Decides(r)
           /\ Decides(r) =>
                  \A p \in {runs[r].products[runs[r].k]} :
                  \A old \in {runs[r]} : \A new \in {runs'[r]} :
                      /\ new.need = IF p.chatId # "" /\ new.found
                                       /\ settings[p.chatId] # NoSetting
                                    THEN settings[p.chatId] ELSE 1
                      /\ IF TooEarly(p, new.need)
                         THEN /\ new.results = Append(old.results,
                                                      [id |-> p.id, status |-> "skipped"])
                              /\ new.fetched = old.fetched
                              /\ new.k = old.k + 1
                              /\ sent' = sent
                              /\ db' = db
                         ELSE /\ new.results = old.results
                              /\ new.fetched = Append(old.fetched, [id |-> p.id, t |-> now])
                              /\ new.at = "getPrice"
                              /\ db' = db
      ]_vars

\* handleCheck has skipped a product of a chat with a frequency of 10 minutes
\* that was checked 2 minutes ago
C22_Witness ==
    /\ mode = "worker"
    /\ \E r \in 1..Len(runs) :
           /\ runs[r].path = "endpoint"
           /\ runs[r].at = "end"
           /\ runs[r].need = 10 /\ runs[r].since = 2
           /\ runs[r].results = <<[id |-> 1, status |-> "skipped"]>>
           /\ runs[r].fetched = <<>>

\* handleCheck has called getPrice for a product checked 2 minutes ago, of a
\* chat without settings
C22_WitnessFetched ==
    /\ mode = "worker"
    /\ \E r \in 1..Len(runs) :
           /\ runs[r].path = "endpoint"
           /\ runs[r].need = 1 /\ runs[r].since = 2 /\ runs[r].found
           /\ runs[r].fetched = <<[id |-> 1, t |-> 2]>>

----------------------------------------------------------------------------
(* The schedulers of the bot worker and the frequency of a chat *)

\* the calls of getPrice that the cron task and the interval callbacks have
\* made for product id: <<run, index in the run, time>>
WorkerChecks(id) ==
    {c \in (1..Len(runs)) \X (1..MaxProducts) \X (0..MaxTime) :
        /\ runs[c[1]].path \in {"cron", "interval"}
        /\ c[2] <= Len(runs[c[1]].fetched)
        /\ runs[c[1]].fetched[c[2]].id = id
        /\ runs[c[1]].fetched[c[2]].t = c[3]}

\* C23: when the chat of a product has chosen a frequency of N minutes, no two
\* calls of getPrice for the product by the cron task and the interval
\* callbacks lie less than N minutes apart.
C23_OncePerWindow ==
    mode = "worker" =>
        \A id \in 1..Len(db) :
            (db[id].chatId # "" /\ settings[db[id].chatId] # NoSetting) =>
                \A a \in WorkerChecks(id) : \A b \in WorkerChecks(id) :
                    a # b => \/ a[3] - b[3] >= settings[db[id].chatId]
                             \/ b[3] - a[3] >= settings[db[id].chatId]

----------------------------------------------------------------------------
(* getProductInfo and getPrice on the same page *)

\* what getPrice returns for a page it has fetched: <<price, stage>>
GetPriceReturns(in) ==
    LET value(values, n) == IF n = 0 THEN <<Null, 0>> ELSE <<values[n], n>>
        first(values) == value(values, FirstStage(values))
    IN  IF StageRaises(in) # "" THEN <<Null, 0>> ELSE first(SixStages(in))

\* what getProductInfo returns as price for a page it has fetched
InfoReturns(in) == IF StageRaises(in) # "" THEN <<Null, 0>> ELSE InfoPrice(in)

\* C24: for every page and hostname, the price field of what getProductInfo
\* returns is the value getPrice returns for the same fetched page, and it
\* comes from the same stage; a call of either function returns the value the
\* other would return for its page.
C24_InfoPriceIsGetPrice ==
    (mode = "price" /\ pc = "done" /\ ~escaped) =>
        \A in \in {input} :
            IF err \in FetchError
            THEN ReturnedPrice = Null
            ELSE \A g \in {GetPriceReturns(in)} : \A i \in {InfoReturns(in)} :
                     /\ g = i
                     /\ ReturnedPrice = g[1]
                     /\ stage = g[2]

\* getProductInfo returns the 1499 of the script state, with the title of the
\* page, as getPrice does for this page
C24_Witness ==
    /\ mode = "price" /\ input.fn = "getProductInfo"
    /\ pc = "done" /\ err = ""
    /\ input.elems = <<S_State, E_H1>>
    /\ stage = 3
    /\ result = [price |-> Num(1499, 0), title |-> Str("Acme Phone")]

----------------------------------------------------------------------------
(* The per-chat timers of the bot worker (src/bot.js): startBot sets them   *)
(* up from the ChatSettings documents, the callback_query handler sets one  *)
(* when a chat picks a frequency, shutdown clears them.  pc is the position *)
(* of startBot, timers.stop that of shutdown, calls holds the invocations   *)
(* of the callback_query handler, each at the promise it awaits.  The price *)
(* checks that the timers start are left out here.                          *)

Chats == {"42", "7"}

\* startBot awaits ChatSettings.find({}), after the initial check
InitBot ==
    /\ mode = "bot"
    /\ input = <<>>
    /\ pc = "settings"
    /\ stage = 0
    /\ result = Null
    /\ err = ""
    /\ escaped = FALSE
    /\ calls = <<>>
    /\ heap = <<>>
    /\ db = <<>>
    /\ runs = <<>>
    /\ sent = {}
    /\ now = 0
    /\ settings \in [Chats -> {NoSetting} \cup Minutes]
    /\ timers = NoTimers

\* the process runs
Alive == mode = "bot" /\ timers.stop # "exited"

\* for (const s of settings) setupPerChatInterval(s.chatId, s.intervalMinutes || 1)
RECURSIVE SetupAll(_, _, _)
SetupAll(t, found, chats) ==
    IF chats = {} THEN t
    ELSE LET next(c) == SetupAll(setupPerChatInterval(t, c, found[c]), found, chats \ {c})
         IN  next(CHOOSE c \in chats : TRUE)

\* ChatSettings.find({}).lean() resolves, or rejects, in startBot
SettingsFound ==
    /\ Alive
    /\ pc = "settings"
    /\ \E ok \in BOOLEAN :
           timers' = IF ok
                     THEN SetupAll(timers, settings,
                                   {c \in Chats : settings[c] # NoSetting})
                     ELSE timers
    /\ pc' = "polling"
    /\ UNCHANGED <<mode, input, stage, result, err, escaped, calls, heap, db, runs, sent,
                   now, settings>>

\* a chat presses a button of the frequency keyboard: the callback_query
\* handler awaits ChatSettings.findOne
FrequencyPicked ==
    /\ Alive
    /\ timers.stop \in {"", "stopPolling"}
    /\ Len(calls) < MaxCalls
    /\ \E chat \in Chats : \E minutes \in Minutes :
           calls' = Append(calls, [fn |-> "freq", chat |-> chat, minutes |-> minutes,
                                   pc |-> "findOne"])
    /\ UNCHANGED <<mode, input, pc, stage, result, err, escaped, heap, db, runs, sent, clock>>

\* the promise the handler awaits rejects: catch (e), answerCallbackQuery
\* 'Error, try again.'
Failed(c) == [c EXCEPT !.pc = "failed"]

\* ChatSettings.findOne resolves: existing.save() or ChatSettings.create
FrequencyFound(i) ==
    /\ Alive
    /\ calls[i].fn = "freq" /\ calls[i].pc = "findOne"
    /\ \E ok \in BOOLEAN :
           calls' = [calls EXCEPT ![i] = IF ok THEN [@ EXCEPT !.pc = "save"] ELSE Failed(@)]
    /\ UNCHANGED <<mode, input, pc, stage, result, err, escaped, heap, db, runs, sent, clock>>

\* save or create resolves: the chat's intervalMinutes is stored
FrequencySaved(i) ==
    /\ Alive
    /\ calls[i].fn = "freq" /\ calls[i].pc = "save"
    /\ \E ok \in BOOLEAN :
           IF ok
           THEN /\ settings' = [settings EXCEPT ![calls[i].chat] = calls[i].minutes]
                /\ calls' = [calls EXCEPT ![i].pc = "answer"]
           ELSE /\ calls' = [calls EXCEPT ![i] = Failed(@)]
                /\ UNCHANGED settings
    /\ UNCHANGED <<mode, input, pc, stage, result, err, escaped, heap, db, runs, sent,
                   now, timers>>

\* answerCallbackQuery resolves: sendMessage 'Frequency updated'
FrequencyAnswered(i) ==
    /\ Alive
    /\ calls[i].fn = "freq" /\ calls[i].pc = "answer"
    /\ \E ok \in BOOLEAN :
           calls' = [calls EXCEPT ![i] = IF ok THEN [@ EXCEPT !.pc = "send"] ELSE Failed(@)]
    /\ UNCHANGED <<mode, input, pc, stage, result, err, escaped, heap, db, runs, sent, clock>>

\* sendMessage resolves: setupPerChatInterval(chatId, minutes)
FrequencySent(i) ==
    /\ Alive
    /\ calls[i].fn = "freq" /\ calls[i].pc = "send"
    /\ \E ok \in BOOLEAN :
           IF ok
           THEN /\ timers' = setupPerChatInterval(timers, calls[i].chat, calls[i].minutes)
                /\ calls' = [calls EXCEPT ![i].pc = "done"]
           ELSE /\ calls' = [calls EXCEPT ![i] = Failed(@)]
                /\ UNCHANGED timers
    /\ UNCHANGED <<mode, input, pc, stage, result, err, escaped, heap, db, runs, sent,
                   now, settings>>

\* the answerCallbackQuery of the catch block settles
FrequencyFailed(i) ==
    /\ Alive
    /\ calls[i].fn = "freq" /\ calls[i].pc = "failed"
    /\ calls' = [calls EXCEPT ![i].pc = "done"]
    /\ UNCHANGED <<mode, input, pc, stage, result, err, escaped, heap, db, runs, sent, clock>>

\* SIGINT or SIGTERM: shutdown stops the cron task, clears every timer of
\* perChatIntervals, clears the map and awaits bot.stopPolling()
Shutdown ==
    /\ Alive
    /\ timers.stop = ""
    /\ timers' = [timers EXCEPT
                     !.active = {a \in @ : \A k \in DOMAIN timers.map : timers.map[k] # a.id},
                     !.map = <<>>,
                     !.stop = "stopPolling"]
    /\ UNCHANGED <<mode, input, pc, stage, result, err, escaped, calls, heap, db, runs, sent,
                   now, settings>>

\* bot.stopPolling() settles: setTimeout(() => process.exit(0), 500)
PollingStopped ==
    /\ Alive
    /\ timers.stop = "stopPolling"
    /\ timers' = [timers EXCEPT !.stop = "exitTimer"]
    /\ UNCHANGED <<mode, input, pc, stage, result, err, escaped, calls, heap, db, runs, sent,
                   now, settings>>

\* process.exit(0): the process and its timers are gone
Exit ==
    /\ Alive
    /\ timers.stop = "exitTimer"
    /\ timers' = [timers EXCEPT !.active = {}, !.map = <<>>, !.stop = "exited"]
    /\ UNCHANGED <<mode, input, pc, stage, result, err, escaped, calls, heap, db, runs, sent,
                   now, settings>>

NextBot ==
    \/ SettingsFound
    \/ FrequencyPicked
    \/ \E i \in 1..Len(calls) : FrequencyFound(i)
    \/ \E i \in 1..Len(calls) : FrequencySaved(i)
    \/ \E i \in 1..Len(calls) : FrequencyAnswered(i)
    \/ \E i \in 1..Len(calls) : FrequencySent(i)
    \/ \E i \in 1..Len(calls) : FrequencyFailed(i)
    \/ Shutdown
    \/ PollingStopped
    \/ Exit

SpecBot == InitBot /\ [][NextBot]_vars

\* at most one timer is set per chat
OneTimerPerChat ==
    \A a \in timers.active : \A b \in timers.active : a.key = b.key => a = b

\* perChatIntervals holds exactly the timers that are set, under their chats
MapHoldsActive ==
    /\ \A a \in timers.active : a.key \in DOMAIN timers.map /\ timers.map[a.key] = a.id
    /\ \A k \in DOMAIN timers.map : \E a \in timers.active : a.id = timers.map[k]

\* C25: at most one interval timer is set per chat and perChatIntervals holds
\* exactly the timers that are set, each under its chat (so a timer that is
\* replaced was cleared before the new one was registered); once shutdown has
\* run, the map is empty and no per-chat timer is set.
C25_TimersMatchMap ==
    mode = "bot" =>
        /\ OneTimerPerChat
        /\ MapHoldsActive
        /\ timers.stop # "" => timers.map = <<>> /\ timers.active = {}

\* the first three parts of C25, without the state after shutdown
C25_BeforeShutdown == mode = "bot" => OneTimerPerChat /\ MapHoldsActive

----------------------------------------------------------------------------
(* A price that cannot be detected *)

\* the products of the chat in the checks of a null price
MaxTracked == 2

\* the worker and the endpoint with MaxTracked products of one chat, each
\* with a price, one minute after startBot has set the chat's timer of one
\* minute
InitTracked ==
    /\ mode = "worker"
    /\ input = [cap |-> MaxSolo]
    /\ pc = ""
    /\ stage = 0
    /\ result = Null
    /\ err = ""
    /\ escaped = FALSE
    /\ calls = <<>>
    /\ heap = <<>>
    /\ db \in [1..MaxTracked -> [lastPrice : {Num(100, 0)}, chatId : {Chat},
                                 lastCheckedAt : {0}]]
    /\ runs = <<>>
    /\ sent = {}
    /\ now = 1
    /\ settings = [c \in {Chat} |-> 1]
    /\ timers = [map |-> [c \in {Chat} |-> 1],
                 active |-> {[id |-> 1, key |-> Chat, minutes |-> 1, due |-> 1]},
                 next |-> 2, stop |-> ""]

\* the runs of the worker and of the endpoint within this minute
NextTracked ==
    \/ CronTick
    \/ InitialCheck
    \/ IntervalFires
    \/ CheckRequest
    \/ \E r \in 1..Len(runs) : Found(r)
    \/ \E r \in 1..Len(runs) : Due(r)
    \/ \E r \in 1..Len(runs) : Priced(r)
    \/ \E r \in 1..Len(runs) : Sent(r)
    \/ \E r \in 1..Len(runs) : Saved(r)
    \/ \E r \in 1..Len(runs) : Noted(r)
    \/ \E r \in 1..Len(runs) : Slept(r)

SpecTracked == InitTracked /\ [][NextTracked]_vars

\* the step of run r in which getPrice resolves with null
PricedNull(r) ==
    /\ runs[r].at = "getPrice"
    /\ runs'[r] # runs[r]
    /\ runs'[r].newPrice = Null

\* C26: in checkAllPrices, in the interval callback and in handleCheck, when
\* getPrice gives null for a product, no document is changed and nothing is
\* sent in that step, the check of the product has ended, and the run goes on
\* to the next product: at once in the interval callback and in handleCheck,
\* after the sleep in checkAllPrices.
C26_NullLeavesProduct ==
    [][\A r \in 1..Len(runs) :
           /\ PricedNull(r) =>
                  /\ db' = db
                  /\ sent' = sent
                  /\ runs'[r].ended
                  /\ runs'[r].products = runs[r].products
                  /\ IF runs[r].path \in {"cron", "initial"}
                     THEN runs'[r].at = "sleep" /\ runs'[r].k = runs[r].k
                     ELSE runs'[r].k = runs[r].k + 1
           /\ (runs[r].at = "sleep" /\ runs'[r] # runs[r]) => runs'[r].k = runs[r].k + 1
           /\ (runs'[r].k = runs[r].k + 1 /\ runs'[r].k <= Len(runs[r].products))
                  => runs'[r].at \in {"getPrice", "due"}
      ]_vars

\* a run of checkAllPrices got null for the first product and has called
\* getPrice for the second; the first product is as it was
C26_Witness ==
    /\ mode = "worker"
    /\ Len(db) = 2
    /\ \E r \in 1..Len(runs) :
           /\ runs[r].path = "cron"
           /\ runs[r].k = 2 /\ runs[r].at = "getPrice"
           /\ runs[r].newPrice = Null /\ runs[r].ended
           /\ runs[r].products[1].modified = {}
           /\ db[1] = [lastPrice |-> Num(100, 0), chatId |-> Chat, lastCheckedAt |-> 0]
    /\ sent = {}

\* C27: in checkAllPrices, in the per-chat interval callback and in
\* handleCheck, when the check of a product has ended and it had found a
\* changed price that is not null and called sendMessage, the lastPrice
\* stored at the end of the check is the new price, also when sendMessage
\* rejected: the next check does not find the same change again.
C27_StoredWhenDeliveryFails ==
    mode = "worker" =>
        \A r \in 1..Len(runs) : \A run \in {runs[r]} :
            (run.ended /\ run.changed /\ run.invoked /\ ~run.delivered)
                => run.stored = run.newPrice

\* the same for the paths that await sendMessage inside its own try block:
\* the cron task, the initial check and handleCheck
C27_OwnTryBlock ==
    mode = "worker" =>
        \A r \in 1..Len(runs) : \A run \in {runs[r]} :
            (/\ run.path # "interval"
             /\ run.ended /\ run.changed /\ run.invoked /\ ~run.delivered)
                => run.stored = run.newPrice

(***************************************************************************)
(* The commands of a chat.  mode = "chat": db holds the products           *)
(* collection as the set of its documents (db.docs) and the number of the  *)
(* next _id (db.next); calls holds the handlers of /track <url>,           *)
(* /remove <url> and of the removeId button, in the bot worker and in the  *)
(* webhook, each at the promise it awaits.  The database answers every     *)
(* query; the collection has the unique index on url that the schema       *)
(* declares (Product.js:4).                                                *)
(***************************************************************************)

\* the handlers that are started
MaxCommands == 2

Urls == {"a", "b"}

Surfaces == {"bot", "webhook"}

\* no document: findOne gave null
NoDoc == 0

\* the documents a query matches
ById(docs, id, chat) == {d \in docs : d.id = id /\ d.chatId = chat}

\* a mutant: deleteOne({ url }) in the place of deleteOne({ url, chatId })
ByUrlAndChatUrlOnly(docs, url, chat) == {d \in docs : d.url = url}

ByUrlAndChat(docs, url, chat) == {d \in docs : d.url = url /\ d.chatId = chat}

ByUrl(docs, url) == {d \in docs : d.url = url}

\* every URL is tracked by one chat or by none
InitChat ==
    /\ mode = "chat"
    /\ input = [cap |-> MaxCommands]
    /\ pc = ""
    /\ stage = 0
    /\ result = Null
    /\ err = ""
    /\ escaped = FALSE
    /\ heap = <<>>
    /\ calls = <<>>
    /\ \E owner \in [Urls -> Chats \cup {""}] :
           db = [docs |-> {[id |-> IF u = "a" THEN 1 ELSE 2, url |-> u,
                            chatId |-> owner[u], lastPrice |-> Num(100, 0)] :
                               u \in {x \in Urls : owner[x] # ""}},
                 next |-> 3]
    /\ runs = <<>>
    /\ sent = {}
    /\ now = 0
    /\ settings = <<>>
    /\ timers = NoTimers

\* a handler: the command, its chat and argument, the promise it awaits,
\* the document it loaded (its _id and the chatId it had), the _id of the
\* document it deleted, and what it told the chat
Handler(surface, fn, chat, url, id, at) ==
    [surface |-> surface, fn |-> fn, chat |-> chat, url |-> url, id |-> id, pc |-> at,
     price |-> Null, doc |-> NoDoc, owner |-> "", deleted |-> NoDoc, reply |-> ""]

\* the handler has told the chat and returns
Told(c, reply) == [c EXCEPT !.pc = "done", !.reply = reply]

\* an error that the handler catches (bot.js:247-250: the chat gets the
\* message of the error) or that rejects POST of the webhook, where
\* /track runs outside a try block
Thrown(c) ==
    IF c.surface = "bot" THEN Told(c, "error") ELSE [c EXCEPT !.pc = "thrown"]

\* /track <url> with a valid URL arrives: the handler awaits getPrice (in
\* the webhook: sendMessage, getProductInfo and getPrice, none of which
\* reads or writes a product)
TrackReceived ==
    /\ mode = "chat"
    /\ Len(calls) < input.cap
    /\ \E s \in Surfaces : \E chat \in Chats : \E url \in Urls :
           calls' = Append(calls, Handler(s, "track", chat, url, NoDoc, "getPrice"))
    /\ UNCHANGED <<mode, input, pc, stage, result, err, escaped, heap, worker>>

\* the price arrives: null ends the handler with a message, a number goes
\* on to Product.findOne({ url }) in the bot worker and to
\* Product.findOne({ url, chatId }) in the webhook
TrackPriced(i) ==
    /\ mode = "chat"
    /\ calls[i].fn = "track" /\ calls[i].pc = "getPrice"
    /\ \E v \in {Null, Num(90, 0)} :
           calls' = [calls EXCEPT ![i] =
                        IF v = Null THEN Told(@, "noprice")
                        ELSE [@ EXCEPT !.price = v, !.pc = "findOne"]]
    /\ UNCHANGED <<mode, input, pc, stage, result, err, escaped, heap, worker>>

\* the documents findOne of /track looks among
addOrUpdateProduct(c, docs) ==
    IF c.surface = "bot" THEN ByUrl(docs, c.url) ELSE ByUrlAndChat(docs, c.url, c.chat)

\* findOne resolves: existing.save() of the changed document, or the
\* insertion of a new one
TrackFound(i) ==
    /\ mode = "chat"
    /\ calls[i].fn = "track" /\ calls[i].pc = "findOne"
    /\ \E found \in {addOrUpdateProduct(calls[i], db.docs)} :
           IF found = {}
           THEN calls' = [calls EXCEPT ![i] = [@ EXCEPT !.pc = "create"]]
           ELSE \E d \in found :
                    calls' = [calls EXCEPT ![i] =
                                 [@ EXCEPT !.doc = d.id, !.owner = d.chatId, !.pc = "save"]]
    /\ UNCHANGED <<mode, input, pc, stage, result, err, escaped, heap, worker>>

\* existing.chatId = chatId.toString(); existing.lastPrice = initialPrice
\* in the bot worker, existing.lastPrice = price in the webhook
Updated(c, d) ==
    IF c.surface = "bot"
    THEN [d EXCEPT !.chatId = c.chat, !.lastPrice = c.price]
    ELSE [d EXCEPT !.lastPrice = c.price]

\* existing.save() settles: the changed paths are written to the document
\* of this _id.  When the document was deleted in between, save writes
\* nothing and then, by the version of mongoose, resolves or rejects with
\* DocumentNotFoundError.
TrackSaved(i) ==
    /\ mode = "chat"
    /\ calls[i].fn = "track" /\ calls[i].pc = "save"
    /\ \E old \in {{d \in db.docs : d.id = calls[i].doc}} :
           IF old # {}
           THEN /\ db' = [db EXCEPT !.docs = (@ \ old) \cup {Updated(calls[i], d) : d \in old}]
                /\ calls' = [calls EXCEPT ![i] = Told(@, "started")]
           ELSE /\ UNCHANGED db
                /\ \E rejects \in BOOLEAN :
                       calls' = [calls EXCEPT ![i] =
                                    IF rejects THEN Thrown(@) ELSE Told(@, "started")]
    /\ UNCHANGED <<mode, input, pc, stage, result, err, escaped, heap, runs, sent, clock>>

\* the insertion settles: a new document, or the duplicate-key error of
\* the unique index on url
TrackCreated(i) ==
    /\ mode = "chat"
    /\ calls[i].fn = "track" /\ calls[i].pc = "create"
    /\ IF ByUrl(db.docs, calls[i].url) = {}
       THEN /\ db' = [docs |-> db.docs \cup {[id |-> db.next, url |-> calls[i].url,
                                             chatId |-> calls[i].chat,
                                             lastPrice |-> calls[i].price]},
                      next |-> db.next + 1]
            /\ calls' = [calls EXCEPT ![i] = Told(@, "started")]
       ELSE /\ UNCHANGED db
            /\ calls' = [calls EXCEPT ![i] = Thrown(@)]
    /\ UNCHANGED <<mode, input, pc, stage, result, err, escaped, heap, runs, sent, clock>>

\* /remove <url> arrives: the handler awaits
\* Product.deleteOne({ url, chatId })
RemoveReceived ==
    /\ mode = "chat"
    /\ Len(calls) < input.cap
    /\ \E s \in Surfaces : \E chat \in Chats : \E url \in Urls :
           calls' = Append(calls, Handler(s, "remove", chat, url, NoDoc, "deleteOne"))
    /\ UNCHANGED <<mode, input, pc, stage, result, err, escaped, heap, worker>>

\* deleteOne resolves: it has deleted the first document that matches, and
\* the chat is told by deletedCount
removeProduct(i) ==
    /\ mode = "chat"
    /\ calls[i].fn = "remove" /\ calls[i].pc = "deleteOne"
    /\ \E found \in {ByUrlAndChat(db.docs, calls[i].url, calls[i].chat)} :
           IF found = {}
           THEN /\ UNCHANGED db
                /\ calls' = [calls EXCEPT ![i] = Told(@, "notfound")]
           ELSE \E d \in found :
                    /\ db' = [db EXCEPT !.docs = @ \ {d}]
                    /\ calls' = [calls EXCEPT ![i] =
                                    Told([@ EXCEPT !.deleted = d.id], "stopped")]
    /\ UNCHANGED <<mode, input, pc, stage, result, err, escaped, heap, runs, sent, clock>>

\* a removeId button is pressed: the handler awaits
\* Product.findOne({ _id: id, chatId }).  The id is that of any document
\* there is or was.
RemoveIdPressed ==
    /\ mode = "chat"
    /\ Len(calls) < input.cap
    /\ \E s \in Surfaces : \E chat \in Chats : \E id \in 1..(db.next - 1) :
           calls' = Append(calls, Handler(s, "removeId", chat, "", id, "findOne"))
    /\ UNCHANGED <<mode, input, pc, stage, result, err, escaped, heap, worker>>

\* findOne resolves: 'Item not found.', or Product.deleteOne({ _id, chatId })
RemoveIdFound(i) ==
    /\ mode = "chat"
    /\ calls[i].fn = "removeId" /\ calls[i].pc = "findOne"
    /\ \E found \in {ById(db.docs, calls[i].id, calls[i].chat)} :
           IF found = {}
           THEN calls' = [calls EXCEPT ![i] = Told(@, "notfound")]
           ELSE \E d \in found :
                    calls' = [calls EXCEPT ![i] =
                                 [@ EXCEPT !.doc = d.id, !.owner = d.chatId,
                                           !.url = d.url, !.pc = "deleteOne"]]
    /\ UNCHANGED <<mode, input, pc, stage, result, err, escaped, heap, worker>>

\* deleteOne resolves: 'Removed.' and 'Stopped tracking', whatever
\* deleteOne has deleted
RemoveIdDeleted(i) ==
    /\ mode = "chat"
    /\ calls[i].fn = "removeId" /\ calls[i].pc = "deleteOne"
    /\ \E found \in {ById(db.docs, calls[i].id, calls[i].chat)} :
           IF found = {}
           THEN /\ UNCHANGED db
                /\ calls' = [calls EXCEPT ![i] = Told(@, "removed")]
           ELSE \E d \in found :
                    /\ db' = [db EXCEPT !.docs = @ \ {d}]
                    /\ calls' = [calls EXCEPT ![i] =
                                    Told([@ EXCEPT !.deleted = d.id], "removed")]
    /\ UNCHANGED <<mode, input, pc, stage, result, err, escaped, heap, runs, sent, clock>>

NextChat ==
    \/ TrackReceived
    \/ \E i \in 1..Len(calls) : TrackPriced(i)
    \/ \E i \in 1..Len(calls) : TrackFound(i)
    \/ \E i \in 1..Len(calls) : TrackSaved(i)
    \/ \E i \in 1..Len(calls) : TrackCreated(i)
    \/ RemoveReceived
    \/ \E i \in 1..Len(calls) : removeProduct(i)
    \/ RemoveIdPressed
    \/ \E i \in 1..Len(calls) : RemoveIdFound(i)
    \/ \E i \in 1..Len(calls) : RemoveIdDeleted(i)

SpecChat == InitChat /\ [][NextChat]_vars

\* handler i takes the step
Steps(i) == calls'[i] # calls[i]

\* the collection has at most one document of a URL
OneDocumentPerUrl(docs) == \A u \in Urls : Cardinality(ByUrl(docs, u)) <= 1

\* C28: a step of a /track handler, in the bot worker or in the webhook,
\* leaves every product of another chat as it is (its chatId and its
\* lastPrice), does not end in an error that nothing catches, and the
\* collection has at most one document per URL.
C28_TrackKeepsOwner ==
    [][mode = "chat" =>
           \A i \in 1..Len(calls) :
               (calls[i].fn = "track" /\ Steps(i))
                   => /\ \A d \in db.docs : d.chatId # calls[i].chat => d \in db'.docs
                      /\ calls'[i].pc # "thrown"
                      /\ OneDocumentPerUrl(db'.docs)
      ]_vars

\* the part about the number of documents alone
C28_OneDocumentPerUrl == mode = "chat" => OneDocumentPerUrl(db.docs)

\* the part about the error alone
C28_NoUnhandledError ==
    mode = "chat" => \A i \in 1..Len(calls) : calls[i].pc # "thrown"

\* the documents a step deletes
Deleted == {d \in db.docs : \A e \in db'.docs : e.id # d.id}

\* the lookup of a removal that handler i awaits finds no document:
\* deleteOne of /remove <url>, findOne of the removeId button
FindsNone(i) ==
    \/ /\ calls[i].fn = "remove" /\ calls[i].pc = "deleteOne"
       /\ \A d \in db.docs : ~(d.url = calls[i].url /\ d.chatId = calls[i].chat)
    \/ /\ calls[i].fn = "removeId" /\ calls[i].pc = "findOne"
       /\ \A d \in db.docs : ~(d.id = calls[i].id /\ d.chatId = calls[i].chat)

C29_WitnessNotFound ==
    /\ mode = "chat"
    /\ \E i \in 1..Len(calls) :
           /\ calls[i].fn = "removeId" /\ calls[i].pc = "done"
           /\ calls[i].chat = "7" /\ calls[i].id = 1
           /\ calls[i].reply = "notfound" /\ calls[i].deleted = NoDoc
    /\ [id |-> 1, url |-> "a", chatId |-> "42", lastPrice |-> Num(100, 0)] \in db.docs

\* the removeId button has removed the product of its chat
C29_WitnessRemoveId ==
    /\ mode = "chat"
    /\ \E i \in 1..Len(calls) :
           /\ calls[i].fn = "removeId" /\ calls[i].pc = "done"
           /\ calls[i].reply = "removed" /\ calls[i].deleted = calls[i].id
           /\ calls[i].owner = calls[i].chat
           /\ \E d \in db.docs : d.chatId # calls[i].chat

====
